---- MODULE Spec2Model ----
(***************************************************************************)
(* Model of the TimeLake catalog store (timelake/catalog.py) and of the    *)
(* entry models it persists (timelake/models.py).                          *)
(*                                                                         *)
(* The catalog Delta table is a sequence of rows.  A Python dict is a TLA+ *)
(* function from keys to values; the JSON text of the "properties" column  *)
(* is the JSON object it denotes (key -> JSON value), so json.dumps and    *)
(* json.loads are conversions on the values.  A pydantic entry is a record *)
(* [cls, fields].  Time is a clock that advances with every call.          *)
(***************************************************************************)
EXTENDS Integers, Sequences, FiniteSets, TLC

VARIABLES table, catalog_exists, storage, lake, now, nextUuid, pc, loc, last, prev, hist

vars == <<table, catalog_exists, storage, lake, now, nextUuid, pc, loc, last, prev, hist>>

(***************************************************************************)
(* Bounds                                                                  *)
(***************************************************************************)
\* number of calls in one behaviour of the single-caller specification
MaxClock == 3
\* number of steps in one behaviour of the two-caller specification
MaxConcClock == 4

(***************************************************************************)
(* Constants of the program                                                *)
(***************************************************************************)
NoneVal == "<None>"
TIMELAKE_CONFIG == "timelake_config"
DATASET == "dataset"
TIMELAKE_VERSION == "0.0.1"
INSERTED_AT == "inserted_at"
StorageType_LOCAL == "local"
CoreFields == {"id", "name", "entry_type", "created_at", "updated_at"}

\* the result of a lookup that found nothing (Python None)
Absent == [cls |-> "None"]

(***************************************************************************)
(* Python dict helpers                                                     *)
(***************************************************************************)
\* {k: v for k in d if k not in keys}
DictPop(d, keys) == [k \in (DOMAIN d) \ keys |-> d[k]]

\* d.update(u) / {**d, **u}: the keys of u win
DictUpdate(d, u) ==
  [k \in (DOMAIN d) \cup (DOMAIN u) |-> IF k \in DOMAIN u THEN u[k] ELSE d[k]]

\* field defaults of a model: the keys of d win
SetDefaults(d, defaults) == DictUpdate(defaults, d)

\* Python truthiness of an optional string
Falsy(v) == v \in {NoneVal, ""}

(***************************************************************************)
(* JSON                                                                    *)
(*                                                                         *)
(* A value of the Any-typed DatasetEntry.properties dict is <<>> for {} or *)
(* <<tag, v>> for {"k": v} with tag "str", "list" (["v"]) or "tuple"       *)
(* (("v",)).  json.dumps writes a tuple as an array, json.loads reads an   *)
(* array as a list.  All other payload values are strings, None and lists  *)
(* of strings, which JSON keeps.                                           *)
(***************************************************************************)
JsonEncode(k, v) ==
  IF k = "properties" /\ Len(v) = 2 /\ v[1] = "tuple" THEN <<"array", v[2]>>
  ELSE IF k = "properties" /\ Len(v) = 2 /\ v[1] = "list" THEN <<"array", v[2]>>
  ELSE v

JsonDecode(k, v) ==
  IF k = "properties" /\ Len(v) = 2 /\ v[1] = "array" THEN <<"list", v[2]>>
  ELSE v

json_dumps(d) == [k \in DOMAIN d |-> JsonEncode(k, d[k])]

json_loads(s) == [k \in DOMAIN s |-> JsonDecode(k, s[k])]

(***************************************************************************)
(* Entry models (models.py)                                                *)
(***************************************************************************)
\* BaseCatalogEntry(**data) constructed at time t
BaseCatalogEntry(data, t) ==
  [cls |-> "BaseCatalogEntry",
   fields |-> SetDefaults(data, [id |-> NoneVal, created_at |-> t, updated_at |-> t])]

\* TimeLakeEntry(**data): entry_type is forced, name defaults to "timelake"
TimeLakeEntry(data, t) ==
  [cls |-> "TimeLakeEntry",
   fields |-> SetDefaults(DictUpdate(data, [entry_type |-> TIMELAKE_CONFIG]),
                          [id |-> NoneVal, name |-> "timelake",
                           created_at |-> t, updated_at |-> t,
                           timelake_version |-> TIMELAKE_VERSION,
                           inserted_at_column |-> INSERTED_AT,
                           storage_type |-> StorageType_LOCAL])]

\* DatasetEntry(**data): entry_type is forced
DatasetEntry(data, t) ==
  [cls |-> "DatasetEntry",
   fields |-> SetDefaults(DictUpdate(data, [entry_type |-> DATASET]),
                          [id |-> NoneVal, created_at |-> t, updated_at |-> t,
                           partition_columns |-> <<>>, primary_key |-> NoneVal,
                           properties |-> <<>>])]

\* ENTRY_TYPE_TO_MODEL.get(entry_type, BaseCatalogEntry)
ENTRY_TYPE_TO_MODEL ==
  [timelake_config |-> "TimeLakeEntry", dataset |-> "DatasetEntry"]

ModelClassOf(entry_type) ==
  IF entry_type \in DOMAIN ENTRY_TYPE_TO_MODEL
  THEN ENTRY_TYPE_TO_MODEL[entry_type] ELSE "BaseCatalogEntry"

\* model_class(**data)
Construct(cls, data, t) ==
  IF cls = "TimeLakeEntry" THEN TimeLakeEntry(data, t)
  ELSE IF cls = "DatasetEntry" THEN DatasetEntry(data, t)
  ELSE BaseCatalogEntry(data, t)

model_dump(e) == e.fields

(***************************************************************************)
(* Preprocessor (preprocessor.py)                                          *)
(***************************************************************************)
\* mutant of get_timestamp_partition_column: the column itself
get_timestamp_partition_column_Raw(timestamp_column) == timestamp_column

\* f"{timestamp_column}_day"
get_timestamp_partition_column(timestamp_column) ==
  IF timestamp_column = "date" THEN "date_day"
  ELSE IF timestamp_column = "ts" THEN "ts_day"
  ELSE "other_day"

\* mutant of get_default_partitions: the timestamp column itself
get_default_partitions_Raw(timestamp_column) == <<timestamp_column>>

get_default_partitions(timestamp_column) ==
  <<get_timestamp_partition_column(timestamp_column)>>

ColumnsOf(df) == {df.columns[i] : i \in 1..Len(df.columns)}

\* mutant of validate_dataframe: a frame without rows is accepted
validate_dataframe_NoEmptyCheck(df, timestamp_column) ==
  IF timestamp_column \notin ColumnsOf(df) THEN "Timestamp column is missing."
  ELSE "ok"

\* mutant of validate_dataframe: the timestamp column is looked for first
validate_dataframe_ColumnFirst(df, timestamp_column) ==
  IF timestamp_column \notin ColumnsOf(df) THEN "Timestamp column is missing."
  ELSE IF Len(df.rows) = 0 THEN "DataFrame is empty."
  ELSE "ok"

\* validate_dataframe(df, timestamp_column): "ok" or the error raised
validate_dataframe(df, timestamp_column) ==
  IF Len(df.rows) = 0 THEN "DataFrame is empty."
  ELSE IF timestamp_column \notin ColumnsOf(df) THEN "Timestamp column is missing."
  ELSE "ok"

\* mutant of validate_partitions: a repeated column is accepted
validate_partitions_NoUniqueCheck(df, partition_by) ==
  IF Len(partition_by) = 0 THEN "Partition columns are empty."
  ELSE IF \E i \in 1..Len(partition_by) : partition_by[i] \notin ColumnsOf(df)
       THEN "Partition column is missing."
  ELSE "ok"

\* validate_partitions(df, partition_by): "ok" or the error raised
validate_partitions(df, partition_by) ==
  IF Len(partition_by) = 0 THEN "Partition columns are empty."
  ELSE IF \E i \in 1..Len(partition_by) : partition_by[i] \notin ColumnsOf(df)
       THEN "Partition column is missing."
  ELSE IF Cardinality({partition_by[i] : i \in 1..Len(partition_by)}) # Len(partition_by)
       THEN "Partition columns must be unique."
  ELSE "ok"

\* a row with the value v in the column: a column the row has is replaced
SetColumn(row, column, v) ==
  [c \in DOMAIN row \cup {column} |-> IF c = column THEN v ELSE row[c]]

\* df.with_columns(expr.alias(column)): the column is replaced if df has it,
\* appended otherwise; row i gets values[i], the value of the expression on it
with_columns(df, column, dtype, values) ==
  LET rows == [i \in 1..Len(df.rows) |-> SetColumn(df.rows[i], column, values[i])]
  IN  IF column \in ColumnsOf(df)
      THEN [df EXCEPT !.dtypes = [i \in 1..Len(df.columns) |->
                                    IF df.columns[i] = column THEN dtype ELSE df.dtypes[i]],
                      !.rows = rows]
      ELSE [df EXCEPT !.columns = Append(df.columns, column),
                      !.dtypes = Append(df.dtypes, dtype),
                      !.rows = rows]

\* a datetime is a number of hours, HoursPerDay to the day; the days a frame
\* can hold are those of DayStrings
HoursPerDay == 10

DayStrings == <<"2023-01-01", "2023-01-02", "2023-01-03">>

\* .dt.truncate("1d"): midnight of the datetime's day
Truncate1d(ts) == (ts \div HoursPerDay) * HoursPerDay

\* .dt.strftime("%Y-%m-%d") of a datetime
StrftimeDay(ts) == DayStrings[ts \div HoursPerDay]

\* datetime.isoformat(): the text of a reading of the clock
isoformat(t) == <<"iso", t>>

\* mutant of enrich_partitions: the partition column holds the first day
enrich_partitions_FirstDay(df, timestamp_column) ==
  with_columns(df, get_timestamp_partition_column(timestamp_column), "String",
               [i \in 1..Len(df.rows) |-> DayStrings[1]])

enrich_partitions(df, timestamp_column) ==
  with_columns(df, get_timestamp_partition_column(timestamp_column), "String",
               [i \in 1..Len(df.rows) |->
                  StrftimeDay(Truncate1d(df.rows[i][timestamp_column]))])

\* mutant of add_inserted_at_column: the value differs from row to row
add_inserted_at_column_PerRow(df, t) ==
  with_columns(df, INSERTED_AT, "String",
               [i \in 1..Len(df.rows) |-> isoformat(t + i)])

\* add_inserted_at_column(df) at the clock reading t
add_inserted_at_column(df, t) ==
  with_columns(df, INSERTED_AT, "String", [i \in 1..Len(df.rows) |-> isoformat(t)])

prepare_data(df, timestamp_column, t) ==
  add_inserted_at_column(enrich_partitions(df, timestamp_column), t)

\* the columns of a list without the repetitions, in the order of their first
\* occurrence
Unique(columns) ==
  LET firsts == {i \in 1..Len(columns) : \A j \in 1..(i - 1) : columns[j] # columns[i]}
      Nth(k) == CHOOSE i \in firsts : Cardinality({j \in firsts : j < i}) = k - 1
  IN  [k \in 1..Cardinality(firsts) |-> columns[Nth(k)]]

\* resolve_partitions(timestamp_column, user_partitions): the day-partition
\* column, then the columns of the caller that are not yet in the list
resolve_partitions(timestamp_column, user_partitions) ==
  Unique(get_default_partitions(timestamp_column) \o user_partitions)

\* run(df, timestamp_column) at the clock reading t: the error raised, or "ok"
\* and the frame returned
run(df, timestamp_column, t) ==
  IF validate_dataframe(df, timestamp_column) # "ok"
  THEN [error |-> validate_dataframe(df, timestamp_column), df |-> df]
  ELSE LET prepared == prepare_data(df, timestamp_column, t)
       IN  [error |-> validate_partitions(prepared, get_default_partitions(timestamp_column)),
            df |-> prepared]

(***************************************************************************)
(* Catalog store (catalog.py)                                              *)
(***************************************************************************)
\* str(uuid.uuid4()): the n-th identifier drawn; draws never collide
UuidOf(n) ==
  <<"u1", "u2", "u3", "u4", "u5", "u6", "u7", "u8", "u9", "u10", "u11", "u12">>[n]

\* entry.id = entry.id or str(uuid.uuid4())
AssignId(e, uid) ==
  [e EXCEPT !.fields = [e.fields EXCEPT !.id = IF Falsy(e.fields.id) THEN uid ELSE e.fields.id]]

\* the row add_entry builds: the core fields and the JSON of the rest
CatalogRow(e) ==
  LET entry_dict == model_dump(e)
  IN  [id |-> entry_dict.id, name |-> entry_dict.name,
       entry_type |-> entry_dict.entry_type,
       created_at |-> entry_dict.created_at,
       updated_at |-> entry_dict.updated_at,
       properties |-> json_dumps(DictPop(entry_dict, CoreFields))]

\* mutant of ReadConcat: the new row is not appended
ReadConcat_DropsRow(tbl, row, readOk) == tbl

\* try: concat(read_delta, entry_df)  except Exception: entry_df
ReadConcat(tbl, row, readOk) == IF readOk THEN Append(tbl, row) ELSE <<row>>

\* catalog_df.filter(pl.col("id") == entry_id)
\* mutant of FilterById: no row is filtered out
FilterById_AllRows(tbl, entry_id) == tbl

\* catalog_df.filter(pl.col("id") == entry_id)
FilterById(tbl, entry_id) == SelectSeq(tbl, LAMBDA row : row.id = entry_id)

_parse_entry(row) ==
  LET entry_type == row.entry_type
      model_class == ModelClassOf(entry_type)
      properties == json_loads(row.properties)
      entry_data == DictUpdate([id |-> row.id, name |-> row.name,
                                entry_type |-> entry_type,
                                created_at |-> row.created_at,
                                updated_at |-> row.updated_at], properties)
  IN  Construct(model_class, entry_data, row.created_at)

get_entry(tbl, entry_id) ==
  LET result == FilterById(tbl, entry_id)
  IN  IF Len(result) = 0 THEN Absent ELSE _parse_entry(result[1])

\* mutant of get_entry_by_name: the entry type alone is compared
get_entry_by_name_AnyName(tbl, name, entry_type) ==
  LET result == SelectSeq(tbl, LAMBDA row : row.entry_type = entry_type)
  IN  IF Len(result) = 0 THEN Absent ELSE _parse_entry(result[1])

\* mutant of get_entry_by_name: nothing is ever found
get_entry_by_name_Never(tbl, name, entry_type) == Absent

get_entry_by_name(tbl, name, entry_type) ==
  LET result == SelectSeq(tbl, LAMBDA row : row.name = name /\ row.entry_type = entry_type)
  IN  IF Len(result) = 0 THEN Absent ELSE _parse_entry(result[1])

\* entry_type = NoneVal stands for the omitted argument
list_entries(tbl, entry_type) ==
  LET catalog_df == IF ~Falsy(entry_type)
                    THEN SelectSeq(tbl, LAMBDA row : row.entry_type = entry_type)
                    ELSE tbl
  IN  [i \in 1..Len(catalog_df) |-> _parse_entry(catalog_df[i])]

\* the payload update_entry serialises
UpdatedProps(current_entry, properties) ==
  DictUpdate(DictPop(model_dump(current_entry), CoreFields), properties)

\* the one-row frame update_entry merges: id, updated_at, properties
UpdateDf(entry_id, t, current_props) ==
  [id |-> entry_id, updated_at |-> t, properties |-> json_dumps(current_props)]

\* mutant of MergeUpdate: the merge predicate is dropped, every row matches
MergeUpdate_AllRows(tbl, update_df) ==
  [i \in 1..Len(tbl) |->
     [tbl[i] EXCEPT !.id = update_df.id,
                    !.updated_at = update_df.updated_at,
                    !.properties = update_df.properties]]

\* mutant of MergeUpdate: the payload of the source is merged key by key into
\* the payload of the matched row instead of replacing it
MergeUpdate_MergesPayload(tbl, update_df) ==
  [i \in 1..Len(tbl) |->
     IF tbl[i].id = update_df.id
     THEN [tbl[i] EXCEPT !.id = update_df.id,
                         !.updated_at = update_df.updated_at,
                         !.properties = DictUpdate(tbl[i].properties, update_df.properties)]
     ELSE tbl[i]]

\* mutant of MergeUpdate: a source row that matches none is inserted, with
\* nulls in the columns the source lacks (when_not_matched_insert_all)
MergeUpdate_InsertsUnmatched(tbl, update_df) ==
  LET merged == [i \in 1..Len(tbl) |->
                   IF tbl[i].id = update_df.id
                   THEN [tbl[i] EXCEPT !.id = update_df.id,
                                       !.updated_at = update_df.updated_at,
                                       !.properties = update_df.properties]
                   ELSE tbl[i]]
  IN  IF update_df.id \in {tbl[i].id : i \in 1..Len(tbl)}
      THEN merged
      ELSE Append(merged, [id |-> update_df.id, name |-> NoneVal,
                           entry_type |-> NoneVal, created_at |-> NoneVal,
                           updated_at |-> update_df.updated_at,
                           properties |-> update_df.properties])

\* merge on s.id = t.id, when_matched_update_all: the columns of the source
\* overwrite those of every matching row; nothing is inserted
MergeUpdate(tbl, update_df) ==
  [i \in 1..Len(tbl) |->
     IF tbl[i].id = update_df.id
     THEN [tbl[i] EXCEPT !.id = update_df.id,
                         !.updated_at = update_df.updated_at,
                         !.properties = update_df.properties]
     ELSE tbl[i]]

\* mutant of FilterOut: the filter keeps the rows of entry_id (== for !=)
FilterOut_KeepsMatching(tbl, entry_id) == SelectSeq(tbl, LAMBDA row : row.id = entry_id)

\* catalog_df.filter(pl.col("id") != entry_id)
FilterOut(tbl, entry_id) == SelectSeq(tbl, LAMBDA row : row.id # entry_id)

IdsOf(tbl) == {tbl[i].id : i \in 1..Len(tbl)}

\* mutant of write_delta_overwrite: mode="append" for mode="overwrite"
write_delta_append(tbl, df) == tbl \o df

\* df.write_delta(catalog_path, mode="overwrite"): the table becomes df
write_delta_overwrite(tbl, df) == df

\* add_entry(entry): the table written and the id returned; uid is the uuid
\* drawn if the entry has no id, readOk whether reading the table succeeded
add_entry(tbl, given, uid, readOk) ==
  LET entry == AssignId(given, uid)
  IN  [table |-> write_delta_overwrite(tbl, ReadConcat(tbl, CatalogRow(entry), readOk)),
       id |-> entry.fields.id, entry |-> entry, writes |-> 1]

\* mutant of update_entry: no early return for an absent entry, and the
\* merge inserts the unmatched source row
update_entry_Upsert(tbl, entry_id, properties, t) ==
  LET current_entry == get_entry(tbl, entry_id)
  IN  IF current_entry = Absent
      THEN [table |-> Append(tbl, [id |-> entry_id, name |-> NoneVal,
                                   entry_type |-> NoneVal, created_at |-> t,
                                   updated_at |-> t,
                                   properties |-> json_dumps(properties)]),
            ok |-> TRUE, writes |-> 1]
      ELSE [table |-> MergeUpdate(tbl, UpdateDf(entry_id, t,
                                         UpdatedProps(current_entry, properties))),
            ok |-> TRUE, writes |-> 1]

\* update_entry(entry_id, properties) at time t
update_entry(tbl, entry_id, properties, t) ==
  LET current_entry == get_entry(tbl, entry_id)
  IN  IF current_entry = Absent
      THEN [table |-> tbl, ok |-> FALSE, writes |-> 0]
      ELSE [table |-> MergeUpdate(tbl, UpdateDf(entry_id, t,
                                         UpdatedProps(current_entry, properties))),
            ok |-> TRUE, writes |-> 1]

\* mutant of delete_entry: the check that a row was removed is missing
delete_entry_NoEarlyReturn(tbl, entry_id) ==
  [table |-> write_delta_overwrite(tbl, FilterOut(tbl, entry_id)),
   ok |-> TRUE, writes |-> 1]

\* delete_entry(entry_id)
delete_entry(tbl, entry_id) ==
  LET filtered_df == FilterOut(tbl, entry_id)
  IN  IF Len(filtered_df) = Len(tbl)
      THEN [table |-> tbl, ok |-> FALSE, writes |-> 0]
      ELSE [table |-> write_delta_overwrite(tbl, filtered_df), ok |-> TRUE, writes |-> 1]

\* _catalog_exists(): DeltaTable(catalog_path) succeeds iff the table exists
_catalog_exists(exists) == exists

\* mutant of _ensure_catalog_exists: the early return is missing, the empty
\* frame is written over the table
_ensure_catalog_exists_NoCheck(exists, tbl) ==
  [exists |-> TRUE, table |-> <<>>, writes |-> 1]

\* _ensure_catalog_exists(): writes the empty catalog table unless one exists
_ensure_catalog_exists(exists, tbl) ==
  IF _catalog_exists(exists)
  THEN [exists |-> exists, table |-> tbl, writes |-> 0]
  ELSE [exists |-> TRUE, table |-> <<>>, writes |-> 1]

\* create_catalog(path)
create_catalog(exists, tbl) == _ensure_catalog_exists(exists, tbl)

\* open_catalog(path): raises ValueError if no catalog table is at the path
open_catalog(exists, tbl) ==
  [exists |-> exists, table |-> tbl, raised |-> ~_catalog_exists(exists), writes |-> 0]

(***************************************************************************)
(* Physical tables and create_dataset / get_or_create_timelake_config      *)
(***************************************************************************)
Names == {"a", "b"}
Paths == {"p1", "p2"}

\* a polars frame: column names, their dtypes and the rows
SampleFrame ==
  [columns |-> <<"date", "value">>, dtypes |-> <<"Datetime", "Float64">>,
   rows |-> <<[date |-> 10, value |-> 1], [date |-> 25, value |-> 2]>>]

SampleFrames == {SampleFrame}

\* the omitted frame argument (None)
NoFrame == [columns |-> <<>>, dtypes |-> <<>>, rows |-> <<>>]

\* {col: str(dtype) for col, dtype in zip(df.columns, df.dtypes)}
SchemaOf(df) ==
  [c \in ColumnsOf(df) |-> df.dtypes[CHOOSE i \in 1..Len(df.columns) : df.columns[i] = c]]

NoTable == [exists |-> FALSE, rows |-> <<>>, partition_by |-> <<>>]

\* df.write_delta(path, mode="overwrite", partition_by=...) raises when a
\* partition column is not a column of df or differs from the partitioning
\* of the table already at path
WriteFails(store, path, df, partition_columns) ==
  /\ partition_columns # <<>>
  /\ \/ \E i \in 1..Len(partition_columns) : partition_columns[i] \notin ColumnsOf(df)
     \/ store[path].exists /\ store[path].partition_by # partition_columns

\* mutant of WriteOverwrite: the rows already at path are kept
WriteOverwrite_KeepsRows(store, path, df, partition_columns) ==
  [store EXCEPT ![path] =
     [exists |-> TRUE, rows |-> store[path].rows \o df.rows,
      partition_by |-> IF partition_columns = <<>> /\ store[path].exists
                       THEN store[path].partition_by ELSE partition_columns]]

\* df.write_delta(path, mode="overwrite", partition_by=...) when it does not
\* raise: the table at path holds the rows of df
WriteOverwrite(store, path, df, partition_columns) ==
  [store EXCEPT ![path] =
     [exists |-> TRUE, rows |-> df.rows,
      partition_by |-> IF partition_columns = <<>> /\ store[path].exists
                       THEN store[path].partition_by ELSE partition_columns]]

\* the TimeLakeEntry get_or_create_timelake_config constructs
NewConfig(timestamp_column, storageClass, timelake_id, t) ==
  TimeLakeEntry(
    [timestamp_column |-> timestamp_column,
     timestamp_partition_column |-> get_timestamp_partition_column(timestamp_column),
     partition_by |-> get_default_partitions(timestamp_column),
     timelake_id |-> timelake_id,
     timelake_storage |-> storageClass,
     timelake_preprocessor |-> "TimeLakePreprocessor",
     storage_type |-> storageClass,
     name |-> "lake"], t)

\* mutant of NewDataset: the partition columns passed are not recorded
NewDataset_NoPartitions(name, path, df, partition_columns, primary_key, t) ==
  DatasetEntry(
    [name |-> name, path |-> path, dataset_schema |-> SchemaOf(df),
     partition_columns |-> <<>>, primary_key |-> primary_key], t)

\* mutant of NewDataset: the entry records another path than the one written
NewDataset_OtherPath(name, path, df, partition_columns, primary_key, t) ==
  DatasetEntry(
    [name |-> name, path |-> "elsewhere", dataset_schema |-> SchemaOf(df),
     partition_columns |-> partition_columns, primary_key |-> primary_key], t)

\* the DatasetEntry create_dataset constructs
NewDataset(name, path, df, partition_columns, primary_key, t) ==
  DatasetEntry(
    [name |-> name, path |-> path, dataset_schema |-> SchemaOf(df),
     partition_columns |-> partition_columns, primary_key |-> primary_key], t)

\* get_or_create_timelake_config(timestamp_column, preprocessor, storage):
\* uid1 and uid2 are the uuids drawn for timelake_id and for the entry id
get_or_create_timelake_config(tbl, timestamp_column, storageClass, uid1, uid2, t, readOk) ==
  LET configs == list_entries(tbl, TIMELAKE_CONFIG)
      r == add_entry(tbl, NewConfig(timestamp_column, storageClass, uid1, t), uid2, readOk)
  IN  IF Len(configs) > 0
      THEN [table |-> tbl, id |-> configs[1].fields.id, entry |-> configs[1],
            created |-> FALSE, writes |-> 0]
      ELSE [table |-> r.table, id |-> r.id, entry |-> r.entry,
            created |-> TRUE, writes |-> r.writes]

\* create_dataset(name, path, df, partition_columns, primary_key): add_entry,
\* then write_delta, which may raise
create_dataset(tbl, store, name, path, df, partition_columns, primary_key, uid, t, readOk) ==
  LET r == add_entry(tbl, NewDataset(name, path, df, partition_columns, primary_key, t),
                     uid, readOk)
      fails == WriteFails(store, path, df, partition_columns)
  IN  [table |-> r.table, entry |-> r.entry, raised |-> fails, writes |-> r.writes,
       storage |-> IF fails THEN store
                   ELSE WriteOverwrite(store, path, df, partition_columns)]

(***************************************************************************)
(* Inputs of the callers                                                   *)
(***************************************************************************)
\* entries a caller constructs and passes to add_entry
SampleEntryData ==
  {[cls |-> "TimeLakeEntry",
    data |-> [timestamp_column |-> "date", timestamp_partition_column |-> "date_day",
              partition_by |-> <<"date_day">>, timelake_id |-> "test-id",
              timelake_storage |-> "LocalTimeLakeStorage",
              timelake_preprocessor |-> "TimeLakePreprocessor", name |-> "a"]],
   [cls |-> "BaseCatalogEntry", data |-> [name |-> "a", entry_type |-> "custom"]],
   [cls |-> "DatasetEntry",
    data |-> [name |-> "a", path |-> "p1", dataset_schema |-> SchemaOf(SampleFrame),
              partition_columns |-> <<"date_day">>]],
   [cls |-> "DatasetEntry",
    data |-> [name |-> "b", path |-> "p2", dataset_schema |-> SchemaOf(SampleFrame),
              partition_columns |-> <<"date_day">>, properties |-> <<"tuple", "v">>]]}

\* ids a caller puts on an entry: none, or one already stored (the entry
\* object of an earlier add, or an entry constructed with that id)
CallerIds(tbl) == {NoneVal} \cup IdsOf(tbl)

\* ids a caller looks up: the stored ones and one that is not stored
LookupIds(tbl) == IdsOf(tbl) \cup {"zz"}

\* partial properties passed to update_entry
UnknownIdUpdates == {[name |-> "b"]}

SampleUpdates ==
  {[name |-> "b"], [primary_key |-> "k"],
   [id |-> "c1", entry_type |-> DATASET, created_at |-> 0]}

\* (name, path) pairs passed to create_dataset
SampleDatasets == {<<"a", "p1">>, <<"b", "p2">>}

SamplePartitionColumns == {<<>>, <<"date">>, <<"missing">>}

Procs == {1, 2}

\* the locals of a call between its read of the table and its commit, and
\* of create_dataset between add_entry and write_delta
NoLoc == [df |-> <<>>, update_df |-> UpdateDf(NoneVal, 0, <<>>),
          path |-> NoneVal, frame |-> SampleFrame, partition_columns |-> <<>>]

\* what is known of the current or last call of a caller: its arguments and
\* result, whether the other caller was between its read and its commit at
\* the same time (overlap) and whether the other caller committed between
\* this call's read and its commit (stale); for an update, the entry it read
\* (before) and the payload it serialised (payload)
NoHist == [op |-> "none", id |-> NoneVal, entry |-> Absent, props |-> <<>>,
           ok |-> FALSE, done |-> FALSE, overlap |-> FALSE, stale |-> FALSE,
           before |-> Absent, payload |-> <<>>]

\* the TimeLake object of the caller: none before TimeLake.create returned
\* one, afterwards the config entry it holds
NoLake == [open |-> FALSE, config |-> Absent]

\* the record of the last call: its arguments, its result and the number of
\* commits it made on the catalog table; for the calls on a store, whether
\* the catalog table existed before the call (existed), the dataset path
\* passed (path) and whether a physical table was at that path before the
\* call (had_table), the dataset name passed (name), the physical tables
\* before the call (storage) and the frame passed (frame); for the calls of
\* the engine, the write mode (mode), the dates passed to read (start_date,
\* end_date), the rows read returned (rows), the reading of the clock at the
\* call (t) and the record of the call before it (before); for a lookup by
\* name, the entry type asked for (entry_type); for the calls of the
\* preprocessor, the timestamp column (column) and the partition columns
\* (partition_by) passed, the error raised or "ok" (error) and the value
\* returned (result)
NoCall == [op |-> "none", proc |-> 0, id |-> NoneVal, entry |-> Absent,
           props |-> <<>>, ok |-> FALSE, raised |-> FALSE, writes |-> 0,
           existed |-> TRUE, path |-> NoneVal, had_table |-> FALSE,
           name |-> NoneVal, storage |-> <<>>, frame |-> NoFrame,
           mode |-> NoneVal, start_date |-> NoneVal, end_date |-> NoneVal,
           rows |-> <<>>, t |-> 0, before |-> <<>>, entry_type |-> NoneVal,
           column |-> NoneVal, partition_by |-> <<>>, error |-> "ok",
           result |-> <<>>]

(***************************************************************************)
(* Single caller: every call runs to completion                            *)
(***************************************************************************)
Init ==
  /\ table = <<>>
  /\ catalog_exists = TRUE
  /\ lake = NoLake
  /\ storage = [p \in Paths |-> NoTable]
  /\ now = 0
  /\ nextUuid = 1
  /\ pc = [p \in Procs |-> "idle"]
  /\ loc = [p \in Procs |-> NoLoc]
  /\ last = NoCall
  /\ prev = <<>>
  /\ hist = [p \in Procs |-> NoHist]

Tick == now < MaxClock /\ now' = now + 1

\* add_entry(entry)
AddEntry ==
  /\ Tick
  /\ \E s \in SampleEntryData, idIn \in CallerIds(table), readOk \in BOOLEAN :
       LET given == Construct(s.cls, DictUpdate(s.data, [id |-> idIn]), now)
           r == add_entry(table, given, UuidOf(nextUuid), readOk)
       IN  /\ table' = r.table
           /\ nextUuid' = IF Falsy(idIn) THEN nextUuid + 1 ELSE nextUuid
           /\ last' = [NoCall EXCEPT !.op = "add", !.proc = 1, !.id = r.id,
                                     !.entry = r.entry, !.ok = TRUE,
                                     !.writes = r.writes]
  /\ prev' = table
  /\ UNCHANGED <<catalog_exists, storage, pc, loc, hist, lake>>

\* update_entry(entry_id, properties)
UpdateEntry ==
  /\ Tick
  /\ \E entry_id \in LookupIds(table) :
     \E properties \in IF entry_id \in IdsOf(table) THEN SampleUpdates
                       ELSE UnknownIdUpdates :
       LET r == update_entry(table, entry_id, properties, now)
       IN  /\ table' = r.table
           /\ last' = [NoCall EXCEPT !.op = "update", !.proc = 1, !.id = entry_id,
                                     !.props = properties, !.ok = r.ok,
                                     !.writes = r.writes]
  /\ prev' = table
  /\ UNCHANGED <<catalog_exists, storage, nextUuid, pc, loc, hist, lake>>

\* delete_entry(entry_id)
DeleteEntry ==
  /\ Tick
  /\ \E entry_id \in LookupIds(table) :
       LET r == delete_entry(table, entry_id)
       IN  /\ table' = r.table
           /\ last' = [NoCall EXCEPT !.op = "delete", !.proc = 1, !.id = entry_id,
                                     !.ok = r.ok, !.writes = r.writes]
  /\ prev' = table
  /\ UNCHANGED <<catalog_exists, storage, nextUuid, pc, loc, hist, lake>>

\* get_or_create_timelake_config(timestamp_column, preprocessor, storage)
GetOrCreateTimelakeConfig ==
  /\ Tick
  /\ \E timestamp_column \in {"date", "ts"}, readOk \in BOOLEAN :
       LET configs == list_entries(table, TIMELAKE_CONFIG)
           r == add_entry(table,
                          NewConfig(timestamp_column, "LocalTimeLakeStorage",
                                    UuidOf(nextUuid), now),
                          UuidOf(nextUuid + 1), readOk)
       IN  IF Len(configs) > 0
           THEN /\ readOk
                /\ table' = table
                /\ nextUuid' = nextUuid
                /\ last' = [NoCall EXCEPT !.op = "get_or_create", !.proc = 1,
                                          !.id = configs[1].fields.id,
                                          !.entry = configs[1], !.ok = FALSE]
           ELSE /\ table' = r.table
                /\ nextUuid' = nextUuid + 2
                /\ last' = [NoCall EXCEPT !.op = "get_or_create", !.proc = 1,
                                          !.id = r.id, !.entry = r.entry,
                                          !.ok = TRUE, !.writes = r.writes]
  /\ prev' = table
  /\ UNCHANGED <<catalog_exists, storage, pc, loc, hist, lake>>

\* create_dataset(name, path, df, partition_columns, primary_key)
CreateDataset ==
  /\ Tick
  /\ \E np \in SampleDatasets, df \in SampleFrames,
        partition_columns \in SamplePartitionColumns, readOk \in BOOLEAN :
       LET name == np[1]
           path == np[2]
           r == add_entry(table,
                          NewDataset(name, path, df, partition_columns, NoneVal, now),
                          UuidOf(nextUuid), readOk)
           fails == WriteFails(storage, path, df, partition_columns)
       IN  /\ table' = r.table
           /\ nextUuid' = nextUuid + 1
           /\ storage' = IF fails THEN storage
                         ELSE WriteOverwrite(storage, path, df, partition_columns)
           /\ last' = [NoCall EXCEPT !.op = "create_dataset", !.proc = 1,
                                     !.id = r.id, !.entry = r.entry, !.ok = ~fails,
                                     !.raised = fails, !.writes = r.writes]
  /\ prev' = table
  /\ UNCHANGED <<catalog_exists, pc, loc, hist, lake>>

Next ==
  \/ AddEntry
  \/ UpdateEntry
  \/ DeleteEntry
  \/ GetOrCreateTimelakeConfig
  \/ CreateDataset

Spec == Init /\ [][Next]_vars

(***************************************************************************)
(* Single caller with lookups: add, update, delete, get_entry and          *)
(* get_entry_by_name on an existing catalog                                *)
(***************************************************************************)
\* names and entry types a caller looks up
LookupNames == {"a", "b", "zz"}

LookupTypes == {TIMELAKE_CONFIG, DATASET, "custom"}

\* get_entry(entry_id)
GetEntry ==
  /\ Tick
  /\ \E entry_id \in LookupIds(table) :
       last' = [NoCall EXCEPT !.op = "get", !.proc = 1, !.id = entry_id,
                              !.entry = get_entry(table, entry_id), !.ok = TRUE]
  /\ prev' = table
  /\ UNCHANGED <<table, catalog_exists, storage, nextUuid, pc, loc, hist, lake>>

\* get_entry_by_name(name, entry_type)
GetEntryByName ==
  /\ Tick
  /\ \E name \in LookupNames, entry_type \in LookupTypes :
       last' = [NoCall EXCEPT !.op = "get_by_name", !.proc = 1, !.name = name,
                              !.entry_type = entry_type,
                              !.entry = get_entry_by_name(table, name, entry_type),
                              !.ok = TRUE]
  /\ prev' = table
  /\ UNCHANGED <<table, catalog_exists, storage, nextUuid, pc, loc, hist, lake>>

NextLookup ==
  \/ AddEntry
  \/ UpdateEntry
  \/ DeleteEntry
  \/ GetEntry
  \/ GetEntryByName

SpecLookup == Init /\ [][NextLookup]_vars

(***************************************************************************)
(* The preprocessor called on its own: every call is made on a frame and   *)
(* arguments of the caller and returns or raises                           *)
(***************************************************************************)
\* number of calls in one behaviour of the preprocessor specification
MaxPreClock == 2

\* longest list of partition columns a caller passes
MaxPartitions == 3

\* pl.DataFrame(schema=...) without the timestamp column: no rows
EmptyNoTimestampFrame ==
  [columns |-> <<"value">>, dtypes |-> <<"Float64">>, rows |-> <<>>]

\* a frame that already has the insertion-time column
StampedFrame ==
  [columns |-> <<"date", "value", "inserted_at">>,
   dtypes |-> <<"Datetime", "Float64", "String">>,
   rows |-> <<[date |-> 10, value |-> 1, inserted_at |-> isoformat(0)],
              [date |-> 25, value |-> 2, inserted_at |-> isoformat(9)]>>]

PreFrames ==
  {SampleFrame, StampedFrame, NoFrame,
   [SampleFrame EXCEPT !.rows = <<>>],
   [columns |-> <<"value">>, dtypes |-> <<"Float64">>,
    rows |-> <<[value |-> 1], [value |-> 2]>>],
   EmptyNoTimestampFrame}

\* timestamp columns a caller names
PreTimestampColumns == {"date", "missing_ts"}

\* lists of at most n elements of S
SeqsUpTo(S, n) == UNION {[1..k -> S] : k \in 0..n}

\* partition columns a caller passes to validate_partitions
PrePartitions == SeqsUpTo({"date", "value", "missing_col"}, MaxPartitions)

\* partition columns a caller passes to resolve_partitions
UserPartitions == SeqsUpTo({"a", "b", "date_day"}, MaxPartitions)

TickPre == now < MaxPreClock /\ now' = now + 1

\* the step of a call of the preprocessor with the record c
PreStep(c) ==
  /\ TickPre
  /\ last' = c
  /\ UNCHANGED <<table, catalog_exists, storage, lake, nextUuid, pc, loc, prev, hist>>

\* validate_dataframe(df, timestamp_column)
ValidateDataframe ==
  \E df \in PreFrames, timestamp_column \in PreTimestampColumns :
    LET error == validate_dataframe(df, timestamp_column)
    IN  PreStep([NoCall EXCEPT !.op = "validate_dataframe", !.frame = df,
                               !.column = timestamp_column, !.error = error,
                               !.raised = (error # "ok"), !.ok = (error = "ok"),
                               !.result = df])

\* validate_partitions(df, partition_by)
ValidatePartitions ==
  \E df \in PreFrames, partition_by \in PrePartitions :
    LET error == validate_partitions(df, partition_by)
    IN  PreStep([NoCall EXCEPT !.op = "validate_partitions", !.frame = df,
                               !.partition_by = partition_by, !.error = error,
                               !.raised = (error # "ok"), !.ok = (error = "ok"),
                               !.result = df])

\* resolve_partitions(timestamp_column, user_partitions)
ResolvePartitions ==
  \E timestamp_column \in {"date", "ts"}, user_partitions \in UserPartitions :
    PreStep([NoCall EXCEPT !.op = "resolve_partitions", !.column = timestamp_column,
                           !.partition_by = user_partitions, !.ok = TRUE,
                           !.result = resolve_partitions(timestamp_column,
                                                         user_partitions)])

\* add_inserted_at_column(df)
AddInsertedAtColumn ==
  \E df \in PreFrames :
    PreStep([NoCall EXCEPT !.op = "add_inserted_at_column", !.frame = df, !.t = now,
                           !.ok = TRUE, !.result = add_inserted_at_column(df, now)])

\* run(df, timestamp_column)
Run ==
  \E df \in PreFrames, timestamp_column \in PreTimestampColumns :
    LET r == run(df, timestamp_column, now)
    IN  PreStep([NoCall EXCEPT !.op = "run", !.frame = df, !.t = now,
                               !.column = timestamp_column, !.error = r.error,
                               !.raised = (r.error # "ok"), !.ok = (r.error = "ok"),
                               !.result = r.df])

NextPre ==
  \/ ValidateDataframe
  \/ ValidatePartitions
  \/ ResolvePartitions
  \/ AddInsertedAtColumn
  \/ Run

SpecPre == Init /\ [][NextPre]_vars

(***************************************************************************)
(* Two callers on one catalog: a call is a read of the table followed by   *)
(* a commit (overwrite or merge), and the steps of the two calls           *)
(* interleave.  Each read and each commit is atomic in the Delta table.    *)
(***************************************************************************)
\* entries and partial properties the concurrent callers use
ConcEntryData ==
  {s \in SampleEntryData : s.cls = "DatasetEntry" /\ s.data.name = "a"}
  \cup {s \in SampleEntryData : s.cls = "TimeLakeEntry"}

ConcUpdates == {[name |-> "b"], [primary_key |-> "k"]}

\* the catalog the callers start from: a dataset entry and a config entry
\* added one after the other by a single caller
ConcInitTable ==
  LET s1 == CHOOSE s \in SampleEntryData : s.cls = "DatasetEntry" /\ s.data.name = "a"
      s2 == CHOOSE s \in SampleEntryData : s.cls = "TimeLakeEntry"
      t1 == add_entry(<<>>, Construct(s1.cls, s1.data, 0), UuidOf(1), TRUE).table
  IN  add_entry(t1, Construct(s2.cls, s2.data, 0), UuidOf(2), TRUE).table

InitConc ==
  /\ table = ConcInitTable
  /\ catalog_exists = TRUE
  /\ lake = NoLake
  /\ storage = [p \in Paths |-> NoTable]
  /\ now = 0
  /\ nextUuid = 3
  /\ pc = [p \in Procs |-> "idle"]
  /\ loc = [p \in Procs |-> NoLoc]
  /\ last = NoCall
  /\ prev = <<>>
  /\ hist = [p \in Procs |-> NoHist]

TickConc == now < MaxConcClock /\ now' = now + 1

\* caller p starts a call that reads the table: it overlaps the call of
\* every caller that has read and not yet committed
Started(p, h) ==
  [q \in Procs |->
     IF q = p THEN [h EXCEPT !.overlap = \E r \in Procs \ {p} : pc[r] # "idle"]
     ELSE IF pc[q] # "idle" THEN [hist[q] EXCEPT !.overlap = TRUE]
     ELSE hist[q]]

\* caller p commits: its call is done, the calls in flight become stale
Committed(p) ==
  [q \in Procs |->
     IF q = p THEN [hist[q] EXCEPT !.done = TRUE, !.ok = TRUE]
     ELSE IF pc[q] # "idle" THEN [hist[q] EXCEPT !.stale = TRUE]
     ELSE hist[q]]

CallOf(p, writes) ==
  [NoCall EXCEPT !.op = hist[p].op, !.proc = p, !.id = hist[p].id,
                 !.entry = hist[p].entry, !.props = hist[p].props,
                 !.ok = TRUE, !.writes = writes]

\* add_entry up to and including the read of the table (lines 106-123)
AddRead(p) ==
  /\ TickConc
  /\ pc[p] = "idle"
  /\ \E s \in ConcEntryData, idIn \in {NoneVal}, readOk \in BOOLEAN :
       LET entry == AssignId(Construct(s.cls, DictUpdate(s.data, [id |-> idIn]), now),
                             UuidOf(nextUuid))
       IN  /\ loc' = [loc EXCEPT ![p] =
                        [NoLoc EXCEPT !.df = ReadConcat(table, CatalogRow(entry), readOk)]]
           /\ hist' = Started(p, [NoHist EXCEPT !.op = "add", !.id = entry.fields.id,
                                                !.entry = entry])
           /\ nextUuid' = IF Falsy(idIn) THEN nextUuid + 1 ELSE nextUuid
  /\ pc' = [pc EXCEPT ![p] = "add_write"]
  /\ UNCHANGED <<catalog_exists, table, storage, last, prev, lake>>

\* add_entry: the overwrite and the return (lines 126-131)
AddWrite(p) ==
  /\ TickConc
  /\ pc[p] = "add_write"
  /\ table' = write_delta_overwrite(table, loc[p].df)
  /\ pc' = [pc EXCEPT ![p] = "idle"]
  /\ loc' = [loc EXCEPT ![p] = NoLoc]
  /\ hist' = Committed(p)
  /\ last' = CallOf(p, 1)
  /\ prev' = table
  /\ UNCHANGED <<catalog_exists, storage, nextUuid, lake>>

\* update_entry up to the merge (lines 214-234); returns false at once if
\* the entry is absent
UpdateRead(p) ==
  /\ TickConc
  /\ pc[p] = "idle"
  /\ \E entry_id \in IdsOf(table) \cup {"zz"}, properties \in ConcUpdates :
       LET current_entry == get_entry(table, entry_id)
           h0 == [NoHist EXCEPT !.op = "update", !.id = entry_id, !.props = properties]
           h == IF current_entry = Absent THEN h0
                ELSE [h0 EXCEPT !.before = current_entry,
                                !.payload = json_dumps(UpdatedProps(current_entry, properties))]
       IN  IF current_entry = Absent
           THEN /\ hist' = [hist EXCEPT ![p] = [h EXCEPT !.done = TRUE]]
                /\ last' = [NoCall EXCEPT !.op = "update", !.proc = p, !.id = entry_id,
                                          !.props = properties]
                /\ prev' = table
                /\ UNCHANGED <<pc, loc>>
           ELSE /\ hist' = Started(p, h)
                /\ loc' = [loc EXCEPT ![p] =
                             [NoLoc EXCEPT !.update_df =
                                UpdateDf(entry_id, now, UpdatedProps(current_entry, properties))]]
                /\ pc' = [pc EXCEPT ![p] = "update_merge"]
                /\ UNCHANGED <<last, prev>>
  /\ UNCHANGED <<catalog_exists, table, storage, nextUuid, lake>>

\* update_entry: the merge and the return (lines 237-248)
UpdateMerge(p) ==
  /\ TickConc
  /\ pc[p] = "update_merge"
  /\ table' = MergeUpdate(table, loc[p].update_df)
  /\ pc' = [pc EXCEPT ![p] = "idle"]
  /\ loc' = [loc EXCEPT ![p] = NoLoc]
  /\ hist' = Committed(p)
  /\ last' = CallOf(p, 1)
  /\ prev' = table
  /\ UNCHANGED <<catalog_exists, storage, nextUuid, lake>>

\* delete_entry up to the overwrite (lines 260-268); returns false at once
\* if no row was removed
DeleteRead(p) ==
  /\ TickConc
  /\ pc[p] = "idle"
  /\ \E entry_id \in IdsOf(table) \cup {"zz"} :
       LET filtered_df == FilterOut(table, entry_id)
           h == [NoHist EXCEPT !.op = "delete", !.id = entry_id]
       IN  IF Len(filtered_df) = Len(table)
           THEN /\ hist' = [hist EXCEPT ![p] = [h EXCEPT !.done = TRUE]]
                /\ last' = [NoCall EXCEPT !.op = "delete", !.proc = p, !.id = entry_id]
                /\ prev' = table
                /\ UNCHANGED <<pc, loc>>
           ELSE /\ hist' = Started(p, h)
                /\ loc' = [loc EXCEPT ![p] = [NoLoc EXCEPT !.df = filtered_df]]
                /\ pc' = [pc EXCEPT ![p] = "delete_write"]
                /\ UNCHANGED <<last, prev>>
  /\ UNCHANGED <<catalog_exists, table, storage, nextUuid, lake>>

\* delete_entry: the overwrite and the return (lines 271-277)
DeleteWrite(p) ==
  /\ TickConc
  /\ pc[p] = "delete_write"
  /\ table' = write_delta_overwrite(table, loc[p].df)
  /\ pc' = [pc EXCEPT ![p] = "idle"]
  /\ loc' = [loc EXCEPT ![p] = NoLoc]
  /\ hist' = Committed(p)
  /\ last' = CallOf(p, 1)
  /\ prev' = table
  /\ UNCHANGED <<catalog_exists, storage, nextUuid, lake>>

NextConc ==
  \/ \E p \in Procs : AddRead(p)
  \/ \E p \in Procs : AddWrite(p)
  \/ \E p \in Procs : UpdateRead(p)
  \/ \E p \in Procs : UpdateMerge(p)
  \/ \E p \in Procs : DeleteRead(p)
  \/ \E p \in Procs : DeleteWrite(p)

SpecConc == InitConc /\ [][NextConc]_vars

(***************************************************************************)
(* One caller on a path that holds no catalog at first: create_catalog,    *)
(* open_catalog and create_dataset.  create_dataset is two steps, add_entry *)
(* and write_delta, and the process may die between them.                  *)
(***************************************************************************)
\* number of steps in one behaviour of the store specification
MaxStoreClock == 5

InitStore ==
  /\ table = <<>>
  /\ catalog_exists = FALSE
  /\ lake = NoLake
  /\ storage = [p \in Paths |-> NoTable]
  /\ now = 0
  /\ nextUuid = 1
  /\ pc = [p \in Procs |-> "idle"]
  /\ loc = [p \in Procs |-> NoLoc]
  /\ last = NoCall
  /\ prev = <<>>
  /\ hist = [p \in Procs |-> NoHist]

TickStore == now < MaxStoreClock /\ now' = now + 1

\* TimeLakeCatalog.create_catalog(path)
CreateCatalog ==
  /\ TickStore
  /\ pc[1] = "idle"
  /\ LET r == create_catalog(catalog_exists, table)
     IN  /\ catalog_exists' = r.exists
         /\ table' = r.table
         /\ last' = [NoCall EXCEPT !.op = "create_catalog", !.proc = 1, !.ok = TRUE,
                                   !.writes = r.writes, !.existed = catalog_exists]
  /\ prev' = table
  /\ UNCHANGED <<storage, nextUuid, pc, loc, hist, lake>>

\* TimeLakeCatalog.open_catalog(path)
OpenCatalog ==
  /\ TickStore
  /\ pc[1] = "idle"
  /\ LET r == open_catalog(catalog_exists, table)
     IN  /\ catalog_exists' = r.exists
         /\ table' = r.table
         /\ last' = [NoCall EXCEPT !.op = "open_catalog", !.proc = 1, !.ok = ~r.raised,
                                   !.raised = r.raised, !.writes = r.writes,
                                   !.existed = catalog_exists]
  /\ prev' = table
  /\ UNCHANGED <<storage, nextUuid, pc, loc, hist, lake>>

\* create_dataset up to and including add_entry (lines 331-347); DeltaTable
\* in add_entry raises when the catalog table does not exist
CreateDatasetAdd ==
  /\ TickStore
  /\ pc[1] = "idle"
  /\ \E np \in SampleDatasets, df \in SampleFrames,
        partition_columns \in SamplePartitionColumns, readOk \in BOOLEAN :
       LET name == np[1]
           path == np[2]
           r == add_entry(table,
                          NewDataset(name, path, df, partition_columns, NoneVal, now),
                          UuidOf(nextUuid), readOk)
           call == [NoCall EXCEPT !.op = "create_dataset", !.proc = 1, !.id = r.id,
                                  !.entry = r.entry, !.existed = catalog_exists,
                                  !.path = path, !.had_table = storage[path].exists]
       IN  IF ~_catalog_exists(catalog_exists)
           THEN /\ readOk
                /\ last' = [call EXCEPT !.raised = TRUE]
                /\ UNCHANGED <<table, pc, loc>>
           ELSE /\ table' = r.table
                /\ pc' = [pc EXCEPT ![1] = "cd_write"]
                /\ loc' = [loc EXCEPT ![1] =
                             [NoLoc EXCEPT !.path = path, !.frame = df,
                                           !.partition_columns = partition_columns]]
                /\ last' = [call EXCEPT !.op = "create_dataset_add", !.writes = r.writes]
  /\ nextUuid' = nextUuid + 1
  /\ prev' = table
  /\ UNCHANGED <<catalog_exists, storage, hist, lake>>

\* create_dataset: write_delta and the return (lines 350-359)
CreateDatasetWrite ==
  /\ TickStore
  /\ pc[1] = "cd_write"
  /\ LET path == loc[1].path
         fails == WriteFails(storage, path, loc[1].frame, loc[1].partition_columns)
     IN  /\ storage' = IF fails THEN storage
                       ELSE WriteOverwrite(storage, path, loc[1].frame,
                                           loc[1].partition_columns)
         /\ last' = [last EXCEPT !.op = "create_dataset", !.ok = ~fails,
                                 !.raised = fails]
  /\ pc' = [pc EXCEPT ![1] = "idle"]
  /\ loc' = [loc EXCEPT ![1] = NoLoc]
  /\ UNCHANGED <<table, catalog_exists, nextUuid, prev, hist, lake>>

\* the process dies between add_entry and write_delta; nothing of the call
\* runs afterwards
Crash ==
  /\ TickStore
  /\ pc[1] = "cd_write"
  /\ last' = [last EXCEPT !.op = "crash"]
  /\ pc' = [pc EXCEPT ![1] = "idle"]
  /\ loc' = [loc EXCEPT ![1] = NoLoc]
  /\ UNCHANGED <<table, catalog_exists, storage, nextUuid, prev, hist, lake>>

NextStore ==
  \/ CreateCatalog
  \/ OpenCatalog
  \/ CreateDatasetAdd
  \/ CreateDatasetWrite
  \/ Crash

SpecStore == InitStore /\ [][NextStore]_vars

(***************************************************************************)
(* The dataset lifecycle engine: TimeLake.create and, on the object it     *)
(* returns, create_dataset, write, upsert, read and get_or_create_dataset  *)
(* by dataset name.  The engine resolves a name through the catalog        *)
(* (get_entry_by_name, create_dataset) and prepares frames with the        *)
(* preprocessor (run); one caller, every call runs to completion.          *)
(***************************************************************************)
\* number of calls in one behaviour of the engine specification
MaxEngineClock == 3

DATASETS_FOLDER == "_timelake_datasets"

\* Path(lake.path) / DATASETS_FOLDER / name, as its components
DatasetPath(name) == <<"lake", DATASETS_FOLDER, name>>

EnginePaths == {DatasetPath(n) : n \in Names}

\* frames passed to the engine: a valid one, one without rows, one without
\* the timestamp column
EmptyFrame == [SampleFrame EXCEPT !.rows = <<>>]

NoTimestampFrame ==
  [columns |-> <<"value">>, dtypes |-> <<"Float64">>,
   rows |-> <<[value |-> 1], [value |-> 2]>>]

\* a frame that changes the value at the first timestamp of SampleFrame and
\* brings a row at a new timestamp
UpsertFrame ==
  [SampleFrame EXCEPT !.rows = <<[date |-> 10, value |-> 7], [date |-> 30, value |-> 3]>>]

EngineFrames == {SampleFrame, UpsertFrame, EmptyFrame, NoTimestampFrame}

WriteModes == {"append", "overwrite"}

\* the physical table at path after a write of df in the given mode
PhysWrite(store, path, df, mode, partition_by) ==
  IF mode = "overwrite" \/ ~store[path].exists
  THEN WriteOverwrite(store, path, df, partition_by)
  ELSE [store EXCEPT ![path].rows = store[path].rows \o df.rows]

\* mutant of PhysMerge: every source row is inserted, no target row is replaced
PhysMerge_InsertOnly(store, path, df, timestamp_column) ==
  [store EXCEPT ![path].rows = store[path].rows \o df.rows]

\* merge on equality of the timestamp column: a matched target row is replaced
\* by its source row, the source rows that match no target row are inserted
PhysMerge(store, path, df, timestamp_column) ==
  LET target == store[path].rows
      Matches(r) == {j \in 1..Len(df.rows) :
                       df.rows[j][timestamp_column] = r[timestamp_column]}
      updated == [i \in 1..Len(target) |->
                    IF Matches(target[i]) = {} THEN target[i]
                    ELSE df.rows[CHOOSE j \in Matches(target[i]) : TRUE]]
      inserted == SelectSeq(df.rows, LAMBDA r :
                    \A i \in 1..Len(target) :
                       target[i][timestamp_column] # r[timestamp_column])
  IN  [store EXCEPT ![path].rows = updated \o inserted]

\* TimeLake.get_dataset(name)
get_dataset(tbl, name) == get_entry_by_name(tbl, name, DATASET)

\* get_or_create_dataset(name, df): the entry of the name, or a new dataset
\* made by the catalog's create_dataset from a non-empty frame
get_or_create_dataset(tbl, store, config, name, df, uid, t, readOk) ==
  LET dataset == get_dataset(tbl, name)
      c == create_dataset(tbl, store, name, DatasetPath(name), df,
                          config.fields.partition_by, NoneVal, uid, t, readOk)
  IN  IF dataset # Absent
      THEN [table |-> tbl, storage |-> store, entry |-> dataset, raised |-> FALSE,
            created |-> FALSE, writes |-> 0]
      ELSE IF df = NoFrame \/ Len(df.rows) = 0
      THEN [table |-> tbl, storage |-> store, entry |-> Absent, raised |-> TRUE,
            created |-> FALSE, writes |-> 0]
      ELSE [table |-> c.table, storage |-> c.storage, entry |-> c.entry,
            raised |-> c.raised, created |-> TRUE, writes |-> c.writes]

\* TimeLake.create_dataset(name, df): the frame is prepared, then the
\* catalog's create_dataset registers and materialises it
lake_create_dataset(tbl, store, config, name, df, uid, t, readOk) ==
  LET p == run(df, config.fields.timestamp_column, t)
      c == create_dataset(tbl, store, name, DatasetPath(name), p.df,
                          config.fields.partition_by, NoneVal, uid, t, readOk)
  IN  IF p.error # "ok"
      THEN [table |-> tbl, storage |-> store, entry |-> Absent, raised |-> TRUE,
            created |-> FALSE, writes |-> 0]
      ELSE [table |-> c.table, storage |-> c.storage, entry |-> c.entry,
            raised |-> c.raised, created |-> TRUE, writes |-> c.writes]

\* TimeLake.write(df, name, mode): preprocess, resolve or create the dataset,
\* then append to or overwrite its physical table
lake_write(tbl, store, config, name, df, mode, uid, t, readOk) ==
  LET p == run(df, config.fields.timestamp_column, t)
      d == get_or_create_dataset(tbl, store, config, name, p.df, uid, t, readOk)
      path == d.entry.fields.path
      fails == WriteFails(d.storage, path, p.df, config.fields.partition_by)
  IN  IF p.error # "ok"
      THEN [table |-> tbl, storage |-> store, entry |-> Absent, raised |-> TRUE,
            created |-> FALSE, writes |-> 0]
      ELSE IF d.raised THEN d
      ELSE [d EXCEPT !.raised = fails,
                     !.storage = IF fails THEN d.storage
                                 ELSE PhysWrite(d.storage, path, p.df, mode,
                                                config.fields.partition_by)]

\* TimeLake.upsert(df, name): preprocess, resolve or create the dataset, then
\* merge into its physical table
lake_upsert(tbl, store, config, name, df, uid, t, readOk) ==
  LET p == run(df, config.fields.timestamp_column, t)
      d == get_or_create_dataset(tbl, store, config, name, p.df, uid, t, readOk)
      path == d.entry.fields.path
      fails == ~d.storage[path].exists
  IN  IF p.error # "ok"
      THEN [table |-> tbl, storage |-> store, entry |-> Absent, raised |-> TRUE,
            created |-> FALSE, writes |-> 0]
      ELSE IF d.raised THEN d
      ELSE [d EXCEPT !.raised = fails,
                     !.storage = IF fails THEN d.storage
                                 ELSE PhysMerge(d.storage, path, p.df,
                                                config.fields.timestamp_column)]

\* the dates a caller of read passes: none, or a day as "YYYY-MM-DD"
ReadDates == {NoneVal, "2023-01-01", "2023-01-02"}

\* a <= b on "YYYY-MM-DD" texts
DayLE(a, b) ==
  LET Index(d) == CHOOSE i \in 1..Len(DayStrings) : DayStrings[i] = d
  IN  Index(a) <= Index(b)

\* mutant of InDateRange: the end date is excluded
InDateRange_EndExclusive(day, start_date, end_date) ==
  /\ start_date = NoneVal \/ DayLE(start_date, day)
  /\ end_date = NoneVal \/ (DayLE(day, end_date) /\ day # end_date)

\* the filter of read on the partition column: both dates are inclusive, a
\* date not given does not filter
InDateRange(day, start_date, end_date) ==
  /\ start_date = NoneVal \/ DayLE(start_date, day)
  /\ end_date = NoneVal \/ DayLE(day, end_date)

\* TimeLake.read(dataset, start_date, end_date): raises when the name is not
\* registered or no physical table is at its path
lake_read(tbl, store, config, name, start_date, end_date) ==
  LET dataset == get_dataset(tbl, name)
      column == config.fields.timestamp_partition_column
  IN  IF dataset = Absent THEN [raised |-> TRUE, rows |-> <<>>]
      ELSE IF ~store[dataset.fields.path].exists THEN [raised |-> TRUE, rows |-> <<>>]
      ELSE [raised |-> FALSE,
            rows |-> SelectSeq(store[dataset.fields.path].rows,
                               LAMBDA r : InDateRange(r[column], start_date, end_date))]

InitEngine ==
  /\ table = <<>>
  /\ catalog_exists = FALSE
  /\ lake = NoLake
  /\ storage = [p \in EnginePaths |-> NoTable]
  /\ now = 0
  /\ nextUuid = 1
  /\ pc = [p \in Procs |-> "idle"]
  /\ loc = [p \in Procs |-> NoLoc]
  /\ last = NoCall
  /\ prev = <<>>
  /\ hist = [p \in Procs |-> NoHist]

TickEngine == now < MaxEngineClock /\ now' = now + 1

\* the record of an engine call on a dataset name
EngineCall(op, name, df, mode, r) ==
  [NoCall EXCEPT !.op = op, !.proc = 1, !.name = name, !.frame = df, !.entry = r.entry,
                 !.ok = ~r.raised, !.raised = r.raised, !.writes = r.writes,
                 !.path = DatasetPath(name), !.storage = storage,
                 !.mode = mode, !.t = now,
                 !.before = [last EXCEPT !.before = <<>>]]

\* TimeLake.create(path, timestamp_column): create_catalog, then
\* get_or_create_timelake_config
LakeCreate ==
  /\ TickEngine
  /\ \E readOk \in BOOLEAN :
       LET c == create_catalog(catalog_exists, table)
           g == get_or_create_timelake_config(c.table, "date", "LocalTimeLakeStorage",
                                              UuidOf(nextUuid), UuidOf(nextUuid + 1),
                                              now, readOk)
       IN  /\ g.created \/ readOk
           /\ catalog_exists' = c.exists
           /\ table' = g.table
           /\ lake' = [open |-> TRUE, config |-> g.entry]
           /\ nextUuid' = IF g.created THEN nextUuid + 2 ELSE nextUuid
           /\ last' = [NoCall EXCEPT !.op = "lake_create", !.proc = 1, !.id = g.id,
                                     !.entry = g.entry, !.ok = TRUE,
                                     !.writes = c.writes + g.writes,
                                     !.existed = catalog_exists, !.storage = storage]
  /\ prev' = table
  /\ UNCHANGED <<storage, pc, loc, hist>>

\* the step of an engine call with result r
EngineStep(op, name, df, mode, r) ==
  /\ table' = r.table
  /\ storage' = r.storage
  /\ nextUuid' = IF r.created THEN nextUuid + 1 ELSE nextUuid
  /\ last' = EngineCall(op, name, df, mode, r)
  /\ prev' = table
  /\ UNCHANGED <<catalog_exists, lake, pc, loc, hist>>

\* lake.create_dataset(name, df)
LakeCreateDataset ==
  /\ TickEngine
  /\ lake.open
  /\ \E name \in Names, df \in EngineFrames, readOk \in BOOLEAN :
       LET r == lake_create_dataset(table, storage, lake.config, name, df,
                                    UuidOf(nextUuid), now, readOk)
       IN  (r.created \/ readOk) /\ EngineStep("lake_create_dataset", name, df, NoneVal, r)

\* lake.write(df, name, mode)
LakeWrite ==
  /\ TickEngine
  /\ lake.open
  /\ \E name \in Names, df \in EngineFrames, mode \in WriteModes, readOk \in BOOLEAN :
       LET r == lake_write(table, storage, lake.config, name, df, mode,
                           UuidOf(nextUuid), now, readOk)
       IN  (r.created \/ readOk) /\ EngineStep("write", name, df, mode, r)

\* lake.upsert(df, name)
LakeUpsert ==
  /\ TickEngine
  /\ lake.open
  /\ \E name \in Names, df \in EngineFrames, readOk \in BOOLEAN :
       LET r == lake_upsert(table, storage, lake.config, name, df,
                            UuidOf(nextUuid), now, readOk)
       IN  (r.created \/ readOk) /\ EngineStep("upsert", name, df, NoneVal, r)

\* get_or_create_dataset(name, df) with no frame or an empty one, and with
\* any frame on a name that is registered
GetOrCreateDataset ==
  /\ TickEngine
  /\ lake.open
  /\ \E name \in Names :
     \E df \in {NoFrame, EmptyFrame} \cup
               (IF get_dataset(table, name) # Absent THEN {SampleFrame} ELSE {}) :
       LET r == get_or_create_dataset(table, storage, lake.config, name, df,
                                      UuidOf(nextUuid), now, TRUE)
       IN  EngineStep("get_or_create_dataset", name, df, NoneVal, r)

\* lake.read(dataset, start_date, end_date)
LakeRead ==
  /\ TickEngine
  /\ lake.open
  /\ \E name \in Names, start_date \in ReadDates, end_date \in ReadDates :
       LET r == lake_read(table, storage, lake.config, name, start_date, end_date)
       IN  /\ last' = [NoCall EXCEPT !.op = "read", !.proc = 1, !.name = name,
                                     !.ok = ~r.raised, !.raised = r.raised,
                                     !.path = DatasetPath(name), !.storage = storage,
                                     !.start_date = start_date, !.end_date = end_date,
                                     !.rows = r.rows, !.t = now,
                                     !.before = [last EXCEPT !.before = <<>>]]
           /\ prev' = table
  /\ UNCHANGED <<table, catalog_exists, storage, lake, nextUuid, pc, loc, hist>>

NextEngine ==
  \/ LakeCreate
  \/ LakeCreateDataset
  \/ LakeWrite
  \/ LakeUpsert
  \/ GetOrCreateDataset
  \/ LakeRead

SpecEngine == InitEngine /\ [][NextEngine]_vars

(***************************************************************************)
(* Properties of the single-caller catalog                                 *)
(***************************************************************************)
EntryTypes == {TIMELAKE_CONFIG, DATASET, "custom"}

\* C1: after add(e) returned an id, get(id) returns an entry equal to e in
\* every field (core fields and payload) and carrying the returned id.
C1_AddThenGetReturnsEntry ==
  last.op = "add" => get_entry(table, last.id) = last.entry

\* C2: no two rows of the catalog share an id, in every state reached by
\* add, update, delete, get_or_create_timelake_config and create_dataset.
C2_IdsUnique ==
  \A i, j \in 1..Len(table) : i # j => table[i].id # table[j].id

\* C3: at most one entry of the catalog has entry_type timelake_config.
C3_AtMostOneConfig ==
  Len(list_entries(table, TIMELAKE_CONFIG)) <= 1

\* C4: no two dataset entries have the same name and no two have the same
\* path.
C4_DatasetNamesAndPathsUnique ==
  LET ds == list_entries(table, DATASET)
  IN  \A i, j \in 1..Len(ds) :
        i # j => /\ ds[i].fields.name # ds[j].fields.name
                 /\ ds[i].fields.path # ds[j].fields.path

\* C5: delete(id) of a stored id returns true, get(id) is absent afterwards
\* and get of every other id returns the same entry as before.
C5_DeleteRemovesOnlyThatId ==
  (last.op = "delete" /\ last.id \in IdsOf(prev)) =>
    /\ last.ok
    /\ get_entry(table, last.id) = Absent
    /\ \A id \in IdsOf(prev) \ {last.id} :
         get_entry(table, id) = get_entry(prev, id)

C5_Witness ==
  /\ last.op = "delete" /\ last.ok
  /\ IdsOf(prev) \ {last.id} # {}
  /\ Len(table) < Len(prev)

\* C6: delete(id) of an id no row has returns false, raises nothing and
\* commits nothing: the rows of the table are those before the call.
C6_DeleteUnknownIsNoOp ==
  (last.op = "delete" /\ last.id \notin IdsOf(prev)) =>
    /\ ~last.ok
    /\ ~last.raised
    /\ last.writes = 0
    /\ table = prev

C6_Witness ==
  last.op = "delete" /\ last.id \notin IdsOf(prev) /\ Len(prev) > 0 /\ ~last.ok

\* C7: update(id, {f: v}) of a stored id returns true, get(id) then has
\* f = v, every other field of that entry is as before and the entries of
\* the other ids are unchanged.  Stated for every field except updated_at,
\* which update_entry sets to the time of the call; this is weaker than the
\* claim, so a state violating it violates the claim.
C7_UpdateSetsFieldKeepsOthers ==
  (last.op = "update" /\ last.id \in IdsOf(prev)
     /\ Cardinality(DOMAIN last.props) = 1) =>
    LET before == get_entry(prev, last.id).fields
        after == get_entry(table, last.id).fields
    IN  /\ last.ok
        /\ \A f \in DOMAIN last.props :
             f \in DOMAIN after /\ after[f] = last.props[f]
        /\ \A f \in (DOMAIN before) \ (DOMAIN last.props \cup {"updated_at"}) :
             f \in DOMAIN after /\ after[f] = before[f]
        /\ \A id \in IdsOf(prev) \ {last.id} :
             get_entry(table, id) = get_entry(prev, id)

\* C8: update(id, properties) of an id no row has returns false, raises
\* nothing, commits nothing and inserts no row for that id.
C8_UpdateUnknownIsNoOp ==
  (last.op = "update" /\ last.id \notin IdsOf(prev)) =>
    /\ ~last.ok
    /\ ~last.raised
    /\ last.writes = 0
    /\ table = prev
    /\ last.id \notin IdsOf(table)

C8_Witness ==
  last.op = "update" /\ last.id \notin IdsOf(prev) /\ Len(prev) > 0 /\ ~last.ok

\* C9: list(entry_type=T) is exactly the entries of list() whose entry_type
\* is T, in the same order, and list() returns one entry per stored row.
C9_ListByTypeIsFilterOfList ==
  /\ Len(list_entries(table, NoneVal)) = Len(table)
  /\ \A T \in EntryTypes :
       list_entries(table, T) =
         SelectSeq(list_entries(table, NoneVal), LAMBDA e : e.fields.entry_type = T)

\* C14: get_or_create_timelake_config on a catalog without a config entry
\* adds exactly one, whose timestamp_partition_column is the timestamp column
\* followed by "_day" and whose partition_by contains that column; on a
\* catalog with a config entry it returns the first one and its id whatever
\* arguments it is given and commits nothing.
C14_GetOrCreateConfigIdempotent ==
  last.op = "get_or_create" =>
    LET before == list_entries(prev, TIMELAKE_CONFIG)
        after == list_entries(table, TIMELAKE_CONFIG)
    IN  IF Len(before) > 0
        THEN /\ last.id = before[1].fields.id
             /\ last.entry = before[1]
             /\ table = prev
             /\ last.writes = 0
        ELSE /\ Len(after) = 1
             /\ after[1].fields.id = last.id
             /\ after[1] = last.entry
             /\ last.writes = 1
             /\ LET day == IF after[1].fields.timestamp_column = "date"
                           THEN "date_day" ELSE "ts_day"
                    by == after[1].fields.partition_by
                IN  /\ after[1].fields.timestamp_column \in {"date", "ts"}
                    /\ after[1].fields.timestamp_partition_column = day
                    /\ \E i \in 1..Len(by) : by[i] = day

\* a second call, on the catalog that holds the config the first one added
C14_Witness ==
  /\ last.op = "get_or_create"
  /\ Len(list_entries(prev, TIMELAKE_CONFIG)) > 0
  /\ last.entry.fields.timelake_storage = "LocalTimeLakeStorage"
  /\ last.entry.fields.timelake_id # "test-id"
  /\ table = prev

\* C17: a dataset name that get_entry_by_name finds before a create_dataset
\* call on any name is found after it: the call removes no DatasetEntry.
C17_RegisteredStaysRegistered ==
  last.op = "create_dataset" =>
    \A n \in Names :
      get_entry_by_name(prev, n, DATASET) # Absent =>
        get_entry_by_name(table, n, DATASET) # Absent

(***************************************************************************)
(* Properties of two callers on one catalog                                *)
(***************************************************************************)
\* C10: when two add calls overlap so that both read the table before either
\* overwrites it, both return an id without error and, once the second
\* overwrite is done, get finds the id of the later writer and not the id
\* of the earlier one: the earlier entry is lost.
C10_ConcurrentAddLosesEntry ==
  \A p, q \in Procs :
    (/\ p # q
     /\ pc[p] = "idle" /\ pc[q] = "idle"
     /\ hist[p].op = "add" /\ hist[q].op = "add"
     /\ hist[p].done /\ hist[q].done
     /\ hist[p].overlap /\ hist[q].overlap
     /\ last.op = "add" /\ last.proc = p) =>
      /\ hist[p].ok /\ hist[q].ok
      /\ ~last.raised
      /\ hist[p].id # hist[q].id
      /\ get_entry(table, hist[p].id) # Absent
      /\ get_entry(table, hist[q].id) = Absent

C10_Witness ==
  \E p, q \in Procs :
    /\ p # q
    /\ pc[p] = "idle" /\ pc[q] = "idle"
    /\ hist[p].op = "add" /\ hist[q].op = "add"
    /\ hist[p].done /\ hist[q].done
    /\ hist[p].overlap /\ hist[q].overlap
    /\ last.op = "add" /\ last.proc = p
    /\ get_entry(table, hist[q].id) = Absent
    /\ Len(table) > 1

\* the two callers have each completed an update that found its entry, the
\* two calls overlapped (both read before either merged) and p merged last
OverlappedUpdates(p, q) ==
  /\ p # q
  /\ pc[p] = "idle" /\ pc[q] = "idle"
  /\ hist[p].op = "update" /\ hist[q].op = "update"
  /\ hist[p].done /\ hist[q].done
  /\ hist[p].before # Absent /\ hist[q].before # Absent
  /\ hist[p].overlap /\ hist[q].overlap
  /\ last.op = "update" /\ last.proc = p

\* get(id) has every value of props
Reflects(tbl, id, props) ==
  LET after == get_entry(tbl, id)
  IN  /\ after # Absent
      /\ \A f \in DOMAIN props : f \in DOMAIN after.fields /\ after.fields[f] = props[f]

\* field f of get(id) is what it was in the entry `before`
SameField(tbl, id, before, f) ==
  LET after == get_entry(tbl, id)
  IN  /\ after # Absent
      /\ IF f \in DOMAIN before.fields
         THEN f \in DOMAIN after.fields /\ after.fields[f] = before.fields[f]
         ELSE f \notin DOMAIN after.fields

\* C11: when two update calls on two different stored ids overlap (no add or
\* delete in between), both return true, get on each id has the values its
\* call passed, the later merge leaves the row of the other id as it was, and
\* no field of a row takes a value passed by the call on the other id.
C11_ConcurrentUpdatesDifferentIds ==
  \A p, q \in Procs :
    (OverlappedUpdates(p, q) /\ hist[p].id # hist[q].id) =>
      /\ hist[p].ok /\ hist[q].ok
      /\ ~last.raised
      /\ Reflects(table, hist[p].id, hist[p].props)
      /\ Reflects(table, hist[q].id, hist[q].props)
      /\ get_entry(table, hist[q].id) = get_entry(prev, hist[q].id)
      /\ \A f \in (DOMAIN hist[q].props) \ (DOMAIN hist[p].props) :
           SameField(table, hist[p].id, hist[p].before, f)
      /\ \A f \in (DOMAIN hist[p].props) \ (DOMAIN hist[q].props) :
           SameField(table, hist[q].id, hist[q].before, f)

C11_Witness ==
  \E p, q \in Procs :
    /\ OverlappedUpdates(p, q)
    /\ hist[p].id # hist[q].id
    /\ hist[p].props # hist[q].props
    /\ Reflects(table, hist[p].id, hist[p].props)
    /\ Reflects(table, hist[q].id, hist[q].props)

\* C12: when two update calls on the same id overlap, both return true
\* without a conflict, the stored payload of that id is the payload computed
\* by the call that merged last, and a field passed only by the other call
\* is back at the value it had when the calls read the entry.
C12_SameIdLastWriterWins ==
  \A p, q \in Procs :
    (OverlappedUpdates(p, q) /\ hist[p].id = hist[q].id) =>
      /\ hist[p].ok /\ hist[q].ok
      /\ ~last.raised
      /\ \A i \in 1..Len(table) :
           table[i].id = hist[p].id => table[i].properties = hist[p].payload
      /\ Reflects(table, hist[p].id, hist[p].props)
      /\ \A f \in (DOMAIN hist[q].props) \ (DOMAIN hist[p].props) :
           SameField(table, hist[p].id, hist[p].before, f)

C12_Witness ==
  \E p, q \in Procs :
    /\ OverlappedUpdates(p, q)
    /\ hist[p].id = hist[q].id
    /\ hist[p].before = hist[q].before
    /\ \E f \in (DOMAIN hist[q].props) \ (DOMAIN hist[p].props) :
         /\ Reflects(prev, hist[q].id, hist[q].props)
         /\ ~Reflects(table, hist[q].id, hist[q].props)
         /\ SameField(table, hist[p].id, hist[p].before, f)

(***************************************************************************)
(* Properties of a store created on an empty path                          *)
(***************************************************************************)
\* C13: create_catalog on a path that holds a catalog table commits nothing
\* and keeps every row; open_catalog on a path without one raises and
\* creates none; on a path where create_catalog has run, open_catalog
\* succeeds and the catalog it returns has the rows that were there.
C13_CreateKeepsOpenNeedsCatalog ==
  /\ last.op = "create_catalog" =>
       /\ catalog_exists /\ ~last.raised
       /\ last.existed => (table = prev /\ last.writes = 0)
       /\ ~last.existed => table = <<>>
  /\ last.op = "open_catalog" =>
       /\ last.raised = ~last.existed
       /\ catalog_exists = last.existed
       /\ table = prev /\ last.writes = 0
       /\ list_entries(table, NoneVal) = list_entries(prev, NoneVal)

\* create_catalog has run on a catalog that holds entries
C13_Witness ==
  /\ last.op = "create_catalog" /\ last.existed
  /\ Len(table) > 0 /\ table = prev

\* the catalog lists a dataset entry whose path is path
HasDatasetEntryFor(tbl, path) ==
  LET ds == list_entries(tbl, DATASET)
  IN  \E i \in 1..Len(ds) :
        "path" \in DOMAIN ds[i].fields /\ ds[i].fields.path = path

\* create_dataset stopped after add_entry and before the physical table was
\* written: the process died, or write_delta raised
StoppedBetweenSteps ==
  \/ last.op = "crash"
  \/ last.op = "create_dataset" /\ last.raised /\ last.existed

\* C15: when create_dataset dies or raises after add_entry and before the
\* table is materialised, the catalog keeps the DatasetEntry of the call
\* (nothing removes it) and no physical table has been created at its path.
C15_CrashLeavesEntryWithoutTable ==
  StoppedBetweenSteps =>
    /\ get_entry(table, last.id) # Absent
    /\ HasDatasetEntryFor(table, last.path)
    /\ get_entry_by_name(table, last.entry.fields.name, DATASET) # Absent
    /\ ~last.had_table => ~storage[last.path].exists

C15_Witness ==
  /\ last.op = "crash"
  /\ ~last.had_table /\ ~storage[last.path].exists
  /\ HasDatasetEntryFor(table, last.path)

\* C16 as stated, for every crash between the two steps: afterwards a
\* physical table is at the dataset path and the catalog holds no
\* DatasetEntry for it.
C16_CrashLeavesTableWithoutEntry ==
  last.op = "crash" =>
    /\ storage[last.path].exists
    /\ ~HasDatasetEntryFor(table, last.path)

\* C16 amended: add_entry runs before write_delta, so a crash between the
\* two steps never leaves a physical table without its DatasetEntry: after
\* the crash the catalog holds a DatasetEntry for the path, whether or not a
\* table is at the path.
C16_CrashNeverLeavesTableWithoutEntry ==
  last.op = "crash" =>
    ~(storage[last.path].exists /\ ~HasDatasetEntryFor(table, last.path))

\* a crash of a second create_dataset on a path that holds a table
C16_Witness ==
  /\ last.op = "crash"
  /\ last.had_table /\ storage[last.path].exists
  /\ HasDatasetEntryFor(table, last.path)

(***************************************************************************)
(* Properties of the dataset lifecycle engine                              *)
(***************************************************************************)
\* a row of the catalog table carries the name as a dataset
Registered(tbl, name) ==
  \E i \in 1..Len(tbl) : tbl[i].name = name /\ tbl[i].entry_type = DATASET

\* C18: a write or upsert of a valid non-empty frame, or a create_dataset,
\* on a name that is not registered does not raise and registers the name:
\* get_dataset then finds a DatasetEntry of that name whose path is
\* <lake path>/_timelake_datasets/<name> and whose partition_columns are the
\* partition_by of the config; TimeLake.create registers no dataset.
C18_FirstWriteRegisters ==
  /\ (/\ last.op \in {"write", "upsert", "lake_create_dataset"}
      /\ last.frame = SampleFrame
      /\ ~Registered(prev, last.name)) =>
       LET e == get_dataset(table, last.name)
       IN  /\ ~last.raised
           /\ Registered(table, last.name)
           /\ e # Absent
           /\ e.cls = "DatasetEntry"
           /\ e.fields.name = last.name
           /\ e.fields.path = <<"lake", "_timelake_datasets", last.name>>
           /\ e.fields.partition_columns = lake.config.fields.partition_by
           /\ e.fields.partition_columns = <<"date_day">>
  /\ last.op = "lake_create" =>
       \A n \in Names : Registered(table, n) => Registered(prev, n)

C18_Witness ==
  /\ last.op = "upsert" /\ last.frame = SampleFrame
  /\ ~Registered(prev, last.name) /\ Registered(table, last.name)
  /\ \E n \in Names \ {last.name} : Registered(prev, n)
  /\ storage[DatasetPath(last.name)].exists

\* C19: get_or_create_dataset on a registered name returns the entry of the
\* name, raises nothing and adds no catalog row; on a name that is not
\* registered, with no frame or a frame without rows, it raises and leaves
\* the catalog and the physical tables as they were.
C19_GetOrCreateDataset ==
  last.op = "get_or_create_dataset" =>
    IF Registered(prev, last.name)
    THEN /\ ~last.raised
         /\ last.entry # Absent
         /\ last.entry.fields.name = last.name
         /\ last.entry = _parse_entry(
              SelectSeq(prev, LAMBDA row : row.name = last.name
                                           /\ row.entry_type = DATASET)[1])
         /\ table = prev /\ last.writes = 0
         /\ storage = last.storage
    ELSE /\ last.frame \in {NoFrame, EmptyFrame}
         /\ last.raised
         /\ table = prev /\ last.writes = 0
         /\ storage = last.storage
         /\ ~Registered(table, last.name)

C19_Witness ==
  /\ last.op = "get_or_create_dataset"
  /\ Registered(prev, last.name)
  /\ last.frame = NoFrame
  /\ last.entry # Absent /\ ~last.raised
  /\ table = prev

\* C20: a write or upsert of a frame that fails validation (no rows, or no
\* timestamp column) raises before anything is changed: the catalog rows and
\* every physical table are as before and a name that was not registered is
\* not registered.
C20_InvalidFrameChangesNothing ==
  (last.op \in {"write", "upsert"} /\ last.frame \in {EmptyFrame, NoTimestampFrame}) =>
    /\ last.raised
    /\ table = prev /\ last.writes = 0
    /\ storage = last.storage
    /\ ~Registered(prev, last.name) => ~Registered(table, last.name)

C20_Witness ==
  /\ last.op = "write" /\ last.frame = NoTimestampFrame
  /\ last.raised
  /\ ~Registered(table, last.name)
  /\ \E n \in Names : Registered(table, n) /\ storage[DatasetPath(n)].exists

(***************************************************************************)
(* Properties of writing to and reading from a dataset                     *)
(***************************************************************************)
\* what read(name) without dates returns in the current state
ReadAll(name) == lake_read(table, storage, lake.config, name, NoneVal, NoneVal)

\* the frame the preprocessor made of the frame of the last call
Processed == run(last.frame, lake.config.fields.timestamp_column, last.t).df

\* C21: after two writes in append mode of the same n-row table to a dataset
\* name that held nothing before them, read(name) returns 2n rows.
C21_AppendTwiceDoubles ==
  (/\ last.op = "write" /\ last.mode = "append" /\ last.ok
   /\ last.before.op = "write" /\ last.before.mode = "append" /\ last.before.ok
   /\ last.before.name = last.name /\ last.before.frame = last.frame
   /\ ~last.before.storage[last.path].exists) =>
     /\ ~ReadAll(last.name).raised
     /\ Len(ReadAll(last.name).rows) = 2 * Len(last.frame.rows)

\* C22: a write in overwrite mode that does not raise leaves in the physical
\* table of the name exactly the processed rows of the frame, whatever the
\* table held before, and leaves every other physical table alone; so two
\* overwrites with the same n-row frame leave n rows.
C22_OverwriteReplaces ==
  (last.op = "write" /\ last.mode = "overwrite" /\ last.ok) =>
    /\ storage[last.path].exists
    /\ storage[last.path].rows = Processed.rows
    /\ Len(storage[last.path].rows) = Len(last.frame.rows)
    /\ ReadAll(last.name).rows = Processed.rows
    /\ \A p \in EnginePaths \ {last.path} : storage[p] = last.storage[p]
    /\ (/\ last.before.op = "write" /\ last.before.mode = "overwrite"
        /\ last.before.ok /\ last.before.name = last.name
        /\ last.before.frame = last.frame) =>
          Len(ReadAll(last.name).rows) = Len(last.frame.rows)

C22_Witness ==
  /\ last.op = "write" /\ last.mode = "overwrite" /\ last.ok
  /\ last.storage[last.path].exists
  /\ Len(last.storage[last.path].rows) > Len(storage[last.path].rows)
  /\ last.storage[last.path].rows # <<>>
  /\ storage[last.path].rows = Processed.rows

\* the timestamps of a sequence of rows, and whether no two rows share one
Stamps(rows) == {rows[i][lake.config.fields.timestamp_column] : i \in 1..Len(rows)}

DistinctStamps(rows) == Cardinality(Stamps(rows)) = Len(rows)

\* the rows of a sequence at the timestamp ts
RowsAt(rows, ts) ==
  SelectSeq(rows, LAMBDA r : r[lake.config.fields.timestamp_column] = ts)

\* C23: after an upsert that does not raise, on a registered dataset whose
\* rows and whose source rows each have distinct timestamps: the table holds
\* one row for every timestamp of the target or the source and no other row;
\* the row at a timestamp of the source holds the values of the source row;
\* the row at a timestamp that is not in the source is the target row,
\* unchanged.
C23_UpsertMerges ==
  LET target == last.storage[last.path].rows
      source == last.frame.rows
      merged == storage[last.path].rows
  IN  (/\ last.op = "upsert" /\ last.ok
       /\ Registered(prev, last.name)
       /\ last.storage[last.path].exists
       /\ DistinctStamps(target) /\ DistinctStamps(source)) =>
        /\ Stamps(merged) = Stamps(target) \cup Stamps(source)
        /\ DistinctStamps(merged)
        /\ \A ts \in Stamps(source) :
             /\ Len(RowsAt(merged, ts)) = 1
             /\ \A c \in ColumnsOf(last.frame) :
                  RowsAt(merged, ts)[1][c] = RowsAt(source, ts)[1][c]
             /\ RowsAt(merged, ts) = RowsAt(Processed.rows, ts)
        /\ \A ts \in Stamps(target) \ Stamps(source) :
             RowsAt(merged, ts) = RowsAt(target, ts)
        /\ ReadAll(last.name).rows = merged

C23_Witness ==
  LET target == last.storage[last.path].rows
      source == last.frame.rows
      merged == storage[last.path].rows
  IN  /\ last.op = "upsert" /\ last.ok
      /\ Registered(prev, last.name)
      /\ last.storage[last.path].exists
      /\ DistinctStamps(target) /\ DistinctStamps(source)
      /\ \E ts \in Stamps(target) \cap Stamps(source) :
           RowsAt(merged, ts)[1].value # RowsAt(target, ts)[1].value
      /\ Stamps(target) \ Stamps(source) # {}
      /\ Stamps(source) \ Stamps(target) # {}
      /\ Len(merged) = 3

\* the number of the day a "YYYY-MM-DD" text names
DayNumber(text) == CHOOSE i \in 1..Len(DayStrings) : DayStrings[i] = text

C25_ReadUnknownRaises ==
  (last.op = "read" /\ ~Registered(prev, last.name)) =>
    /\ last.raised
    /\ last.rows = <<>>
    /\ table = prev
    /\ storage = last.storage
    /\ ~Registered(table, last.name)
    /\ get_dataset(table, last.name) = Absent

C25_Witness ==
  /\ last.op = "read" /\ last.raised
  /\ ~Registered(table, last.name)
  /\ ~storage[last.path].exists
  /\ \E n \in Names : Registered(table, n) /\ storage[DatasetPath(n)].exists

(***************************************************************************)
(* Properties of the lookups                                               *)
(***************************************************************************)
\* C26: get_entry returns None, and raises nothing, when no row of the
\* catalog has the id; get_entry_by_name returns None, and raises nothing,
\* when no row has the name together with the entry type, also when a row
\* has the name under another entry type; neither changes the catalog.
C26_LookupsReturnAbsent ==
  /\ (last.op = "get" /\ \A i \in 1..Len(prev) : prev[i].id # last.id) =>
       last.entry = Absent /\ ~last.raised
  /\ (/\ last.op = "get_by_name"
      /\ \A i \in 1..Len(prev) :
           ~(prev[i].name = last.name /\ prev[i].entry_type = last.entry_type)) =>
       last.entry = Absent /\ ~last.raised
  /\ last.op \in {"get", "get_by_name"} => table = prev /\ last.writes = 0

C26_Witness ==
  /\ last.op = "get_by_name"
  /\ last.entry = Absent
  /\ \E i \in 1..Len(table) :
       table[i].name = last.name /\ table[i].entry_type # last.entry_type
  /\ table = prev /\ Len(table) >= 2

(***************************************************************************)
(* Properties of the preprocessor                                          *)
(***************************************************************************)
\* C27: validate_dataframe raises exactly when the frame has no rows or lacks
\* the timestamp column; a frame without rows gets the error of the empty
\* frame also when it lacks the column; otherwise the call returns and the
\* frame is as it was.
C27_ValidateDataframe ==
  last.op = "validate_dataframe" =>
    LET empty == Len(last.frame.rows) = 0
        missing == \A i \in 1..Len(last.frame.columns) :
                      last.frame.columns[i] # last.column
    IN  /\ last.raised <=> (empty \/ missing)
        /\ empty => last.error = "DataFrame is empty."
        /\ (~empty /\ missing) => last.error = "Timestamp column is missing."
        /\ ~last.raised => last.error = "ok"
        /\ last.result = last.frame

C27_Witness ==
  /\ last.op = "validate_dataframe"
  /\ last.frame = EmptyNoTimestampFrame /\ last.column = "date"
  /\ last.raised /\ last.error = "DataFrame is empty."

\* C28: validate_partitions raises exactly when the list is empty, or names
\* a column the frame lacks, or names a column twice; it returns for every
\* non-empty list of distinct columns of the frame.
C28_ValidatePartitions ==
  last.op = "validate_partitions" =>
    LET pb == last.partition_by
        empty == pb = <<>>
        missing == \E i \in 1..Len(pb) :
                     \A k \in 1..Len(last.frame.columns) : last.frame.columns[k] # pb[i]
        repeated == \E i, j \in 1..Len(pb) : i # j /\ pb[i] = pb[j]
    IN  /\ last.raised <=> (empty \/ missing \/ repeated)
        /\ last.ok <=> (~empty /\ ~missing /\ ~repeated)
        /\ last.result = last.frame

C28_Witness ==
  /\ last.op = "validate_partitions"
  /\ last.frame = SampleFrame
  /\ last.partition_by = <<"date", "date">>
  /\ last.raised /\ last.error = "Partition columns must be unique."

KnownEntryTypes == {TIMELAKE_CONFIG, DATASET}

\* C31: in every state of the catalog the entry_type column of every row is
\* timelake_config or dataset, and so is the entry_type of every entry that
\* get_entry and list_entries return.
C31_EntryTypesClosed ==
  /\ \A i \in 1..Len(table) : table[i].entry_type \in KnownEntryTypes
  /\ \A id \in IdsOf(table) :
       get_entry(table, id).fields.entry_type \in KnownEntryTypes
  /\ LET entries == list_entries(table, NoneVal)
     IN  \A i \in 1..Len(entries) : entries[i].fields.entry_type \in KnownEntryTypes

(***************************************************************************)
(* Partition columns of the entries create_dataset stores                  *)
(***************************************************************************)
\* C32: after create_dataset the DatasetEntry it constructed and stored has
\* partition_columns that are non-empty, without duplicates and all among
\* the columns of the frame passed (the keys of its dataset_schema), also
\* when no partition_columns were passed or one of them is not a column.
C32_PartitionColumnsValid ==
  last.op = "create_dataset" =>
    LET stored == get_entry(table, last.id)
        columns == stored.fields.partition_columns
    IN  /\ stored # Absent
        /\ Len(columns) > 0
        /\ \A i, j \in 1..Len(columns) : i # j => columns[i] # columns[j]
        /\ \A i \in 1..Len(columns) :
             columns[i] \in DOMAIN stored.fields.dataset_schema

(***************************************************************************)
(* Storage backends (storage.py): construction                             *)
(***************************************************************************)
\* number of constructions in one behaviour
MaxBackendClock == 2

\* the values of storage_type a caller passes: the two kinds create_storage
\* knows and one it does not
StorageKinds == {"local", "s3", "gcs"}

CredentialKeys == {"region", "access_key", "secret_key"}

\* a keyword argument that is not passed
Missing == "<missing>"

\* the aws_credentials argument: not passed, or a dict with these keys
NoCredentials == [passed |-> FALSE, keys |-> {}]

Credentials(keys) == [passed |-> TRUE, keys |-> keys]

\* the keyword arguments of a construction
BackendKwargs ==
  {[bucket_name |-> b, aws_credentials |-> c] :
     b \in {Missing, "test-bucket"},
     c \in {NoCredentials, Credentials({}),
            Credentials({"access_key", "secret_key"}), Credentials(CredentialKeys)}}

\* the result of a construction that raised
Raised(error) == [raised |-> TRUE, error |-> error, storage |-> Absent]

\* LocalTimeLakeStorage(path)
LocalTimeLakeStorage(path) ==
  [raised |-> FALSE, error |-> "ok",
   storage |-> [cls |-> "LocalTimeLakeStorage", path |-> path]]

\* S3TimeLakeStorage(path, bucket_name, aws_credentials): the two arguments
\* are required by the signature and stored as given
S3TimeLakeStorage(path, kwargs) ==
  IF kwargs.bucket_name = Missing \/ ~kwargs.aws_credentials.passed
  THEN Raised("TypeError")
  ELSE [raised |-> FALSE, error |-> "ok",
        storage |-> [cls |-> "S3TimeLakeStorage", path |-> path,
                     bucket_name |-> kwargs.bucket_name,
                     aws_credentials |-> kwargs.aws_credentials]]

\* TimeLakeStorage.create_storage(storage_type, path, **kwargs)
create_storage(storage_type, path, kwargs) ==
  IF storage_type = "local" THEN LocalTimeLakeStorage(path)
  ELSE IF storage_type = "s3" THEN S3TimeLakeStorage(path, kwargs)
  ELSE Raised("ValueError")

TickBackend == now < MaxBackendClock /\ now' = now + 1

\* the record of a construction: the kind (id), the path, the keyword
\* arguments (props) and what was returned or raised
BackendStep(op, kind, path, kwargs, r) ==
  /\ TickBackend
  /\ last' = [NoCall EXCEPT !.op = op, !.proc = 1, !.id = kind, !.path = path,
                            !.props = kwargs,
                            !.ok = ~r.raised, !.raised = r.raised,
                            !.error = r.error, !.result = r.storage]
  /\ prev' = table
  /\ UNCHANGED <<table, catalog_exists, storage, lake, nextUuid, pc, loc, hist>>

\* TimeLakeStorage.create_storage(storage_type, path, **kwargs)
CreateStorage ==
  \E storage_type \in StorageKinds, path \in Paths, kwargs \in BackendKwargs :
    BackendStep("create_storage", storage_type, path, kwargs,
                create_storage(storage_type, path, kwargs))

\* S3TimeLakeStorage(path, bucket_name=..., aws_credentials=...)
ConstructS3 ==
  \E path \in Paths, kwargs \in BackendKwargs :
    BackendStep("S3TimeLakeStorage", "s3", path, kwargs,
                S3TimeLakeStorage(path, kwargs))

NextBackend ==
  \/ CreateStorage
  \/ ConstructS3

SpecBackend == Init /\ [][NextBackend]_vars

C34_AddKeepsEntries ==
  last.op = "add" =>
    \A id \in IdsOf(prev) : get_entry(table, id) = get_entry(prev, id)

(***************************************************************************)
(* Identity fields under update_entry                                      *)
(***************************************************************************)
\* C35: after update_entry(id, properties) of a stored id, whatever keys
\* properties has, get_entry(id) returns an entry whose id is the id asked
\* for and whose entry_type and created_at are those get_entry(id) returned
\* before the update.
C35_UpdateKeepsIdentity ==
  (last.op = "update" /\ last.id \in IdsOf(prev)) =>
    LET before == get_entry(prev, last.id)
        after == get_entry(table, last.id)
    IN  /\ after # Absent
        /\ after.fields.id = last.id
        /\ after.fields.entry_type = before.fields.entry_type
        /\ after.fields.created_at = before.fields.created_at

(***************************************************************************)
(* Lookup by name against lookup by id                                     *)
(***************************************************************************)
\* C36: in every state, for every stored id, get_entry_by_name called with
\* the name and the entry_type of the entry get_entry(id) returns finds an
\* entry of that name.
C36_NameLookupAgrees ==
  \A id \in IdsOf(table) :
    LET e == get_entry(table, id)
        found == get_entry_by_name(table, e.fields.name, e.fields.entry_type)
    IN  found # Absent /\ found.fields.name = e.fields.name

(***************************************************************************)
(* An update overlapping an add or a delete of another entry               *)
(***************************************************************************)
\* caller p has completed an update that found its entry, caller q an add
\* or a delete of another id that returned normally, and the two calls
\* overlapped: both read the table before either committed
UpdateOverlapsRewrite(p, q) ==
  /\ p # q
  /\ pc[p] = "idle" /\ pc[q] = "idle"
  /\ hist[p].op = "update" /\ hist[p].done /\ hist[p].before # Absent
  /\ hist[q].op \in {"add", "delete"} /\ hist[q].done /\ hist[q].ok
  /\ hist[q].id # hist[p].id
  /\ hist[p].overlap /\ hist[q].overlap

\* C37 as claimed: once an update and an overlapping add or delete of
\* another entry have both returned, get(id) has the values the update
\* passed.
C37_UpdateNotUndone ==
  \A p, q \in Procs :
    UpdateOverlapsRewrite(p, q) => Reflects(table, hist[p].id, hist[p].props)

\* C37 as the code behaves: the update returns true; when the add or delete
\* overwrites the table after the merge, get(id) is the entry the update
\* read (or absent, after an add whose read failed) and does not have the
\* values passed; when the merge comes after the overwrite and the row is
\* still stored, get(id) has the values passed.
C37_LaterOverwriteUndoesUpdate ==
  \A p, q \in Procs :
    UpdateOverlapsRewrite(p, q) =>
      /\ hist[p].ok
      /\ (last.proc = q /\ last.op = hist[q].op) =>
           /\ ~Reflects(table, hist[p].id, hist[p].props)
           /\ get_entry(table, hist[p].id) \in {hist[p].before, Absent}
           /\ hist[q].op = "delete" => get_entry(table, hist[p].id) = hist[p].before
      /\ (last.proc = p /\ last.op = "update" /\ hist[p].id \in IdsOf(table)) =>
           Reflects(table, hist[p].id, hist[p].props)

C37_Witness ==
  \E p, q \in Procs :
    /\ UpdateOverlapsRewrite(p, q)
    /\ last.proc = q /\ last.op = "add"
    /\ Reflects(prev, hist[p].id, hist[p].props)
    /\ get_entry(table, hist[p].id) = hist[p].before
    /\ get_entry(table, hist[q].id) # Absent

(***************************************************************************)
(* A delete committed between the read and the merge of an update          *)
(***************************************************************************)
\* caller p has completed an update of an id it found when it read, caller
\* q has deleted that id, and the delete was committed between the read and
\* the merge of the update; the merge is the last commit
DeleteBetweenReadAndMerge(p, q) ==
  /\ p # q
  /\ pc[p] = "idle" /\ pc[q] = "idle"
  /\ hist[p].op = "update" /\ hist[p].done /\ hist[p].before # Absent
  /\ hist[q].op = "delete" /\ hist[q].done /\ hist[q].ok
  /\ hist[q].id = hist[p].id
  /\ hist[p].stale
  /\ last.op = "update" /\ last.proc = p

\* C38: when delete(id) is committed between the read and the merge of
\* update(id), the update returns true, its merge matches no row and
\* inserts none (the table after the merge is the table before it), and
\* get(id) is absent once both calls have returned.
C38_UpdateNeverRecreates ==
  \A p, q \in Procs :
    DeleteBetweenReadAndMerge(p, q) =>
      /\ hist[p].ok
      /\ table = prev
      /\ hist[p].id \notin IdsOf(table)
      /\ get_entry(table, hist[p].id) = Absent

C38_Witness ==
  \E p, q \in Procs :
    /\ DeleteBetweenReadAndMerge(p, q)
    /\ hist[p].ok
    /\ get_entry(table, hist[p].id) = Absent
    /\ Len(table) > 0

(***************************************************************************)
(* The first write to a dataset name                                       *)
(***************************************************************************)
\* C39: after a write in append mode that did not raise, on a name that was
\* not registered and had no physical table, read(name) returns as many rows
\* as the frame written has: one copy of it.
C39_FirstWriteStoresOneCopy ==
  (/\ last.op = "write" /\ last.mode = "append" /\ last.ok
   /\ ~Registered(prev, last.name)
   /\ ~last.storage[last.path].exists) =>
     /\ ~ReadAll(last.name).raised
     /\ Len(ReadAll(last.name).rows) = Len(last.frame.rows)

(***************************************************************************)
(* Feature registry of TimeLake (core.py): one JSON file per feature under *)
(* <path>/_timelake_features.  storage maps the path of a file to what it  *)
(* holds.                                                                  *)
(***************************************************************************)
\* number of calls in one behaviour
MaxFeatureClock == 3

\* names of the features the caller adds, and one more name it asks for
FeatureNames == {"f", "g"}

FeatureLookupNames == FeatureNames \cup {"zz"}

\* os.path.join(self.features_path, f"{name}.json")
FeaturePath(name) == <<"lake", "_timelake_features", name>>

FeaturePaths == {FeaturePath(n) : n \in FeatureLookupNames}

NoFile == [exists |-> FALSE, content |-> <<>>]

\* fill_value is <<"none">> for None, <<"tuple", v>> for (v,), <<"list", v>>
\* for [v]; json.dump writes a tuple as an array, json.load reads an array
\* as a list
FeatureJsonEncode(k, v) ==
  IF k = "fill_value" /\ v[1] \in {"tuple", "list"} THEN <<"array", v[2]>> ELSE v

FeatureJsonDecode(k, v) ==
  IF k = "fill_value" /\ v[1] = "array" THEN <<"list", v[2]>> ELSE v

\* json.dump(d, f)
feature_json_dump(d) == [k \in DOMAIN d |-> FeatureJsonEncode(k, d[k])]

\* json.load(f)
feature_json_load(s) == [k \in DOMAIN s |-> FeatureJsonDecode(k, s[k])]

\* TimeFeature.lag(name, source_column, periods, fill_value, cache_policy)
\* at time t: the attributes of the instance
TimeFeature_lag(name, source_column, periods, fill_value, cache_policy, t) ==
  [type |-> "lag", name |-> name, source_column |-> source_column,
   periods |-> periods, fill_value |-> fill_value, cache_policy |-> cache_policy,
   created_at |-> isoformat(t), updated_at |-> isoformat(t)]

\* feature.to_dict(): self.__dict__
to_dict(feature) == feature

\* TimeFeature.from_dict(data): every key becomes an attribute
from_dict(data) == data

\* what hasattr finds besides the attributes of the instance
TimeFeatureClassAttributes == {"lag", "to_dict", "from_dict", "compute"}

hasattr(feature, key) == key \in (DOMAIN feature) \cup TimeFeatureClassAttributes

\* the result of a call: the files after it, whether and what it raised,
\* and the value returned
FeatureResult(files, error, result) ==
  [files |-> files, raised |-> error # "ok", error |-> error, result |-> result]

\* mutant of add_feature: the check for an existing file is missing
add_feature_NoExistsCheck(files, feature) ==
  FeatureResult([files EXCEPT ![FeaturePath(feature.name)] =
                   [exists |-> TRUE, content |-> feature_json_dump(to_dict(feature))]],
                "ok", TRUE)

\* add_feature(feature)
add_feature(files, feature) ==
  LET feature_path == FeaturePath(feature.name)
  IN  IF files[feature_path].exists
      THEN FeatureResult(files, "already exists", FALSE)
      ELSE FeatureResult([files EXCEPT ![feature_path] =
                            [exists |-> TRUE,
                             content |-> feature_json_dump(to_dict(feature))]],
                         "ok", TRUE)

\* list_features(): the names of the files; os.listdir gives them in no
\* particular order
list_features(files) == {n \in FeatureLookupNames : files[FeaturePath(n)].exists}

\* get_feature_info(feature_name)
get_feature_info(files, feature_name) ==
  LET feature_path == FeaturePath(feature_name)
  IN  IF ~files[feature_path].exists THEN Absent
      ELSE from_dict(feature_json_load(files[feature_path].content))

\* the loop of update_feature over kwargs from the i-th item on: setattr for
\* an attribute the feature has, ValueError at the first it lacks
RECURSIVE SetAttrs(_, _, _)
SetAttrs(feature, kwargs, i) ==
  IF i > Len(kwargs) THEN [raised |-> FALSE, feature |-> feature]
  ELSE IF hasattr(feature, kwargs[i].key)
  THEN SetAttrs(DictUpdate(feature, [k \in {kwargs[i].key} |-> kwargs[i].value]),
                kwargs, i + 1)
  ELSE [raised |-> TRUE, feature |-> feature]

\* update_feature(feature_name, **kwargs) at time t
update_feature(files, feature_name, kwargs, t) ==
  LET feature == get_feature_info(files, feature_name)
      updated == SetAttrs(feature, kwargs, 1)
      saved == [updated.feature EXCEPT !.updated_at = isoformat(t)]
  IN  IF feature = Absent THEN FeatureResult(files, "not found", FALSE)
      ELSE IF updated.raised THEN FeatureResult(files, "invalid attribute", FALSE)
      ELSE FeatureResult([files EXCEPT ![FeaturePath(feature_name)] =
                            [exists |-> TRUE,
                             content |-> feature_json_dump(to_dict(saved))]],
                         "ok", TRUE)

\* remove_feature(feature_name)
remove_feature(files, feature_name) ==
  LET feature_path == FeaturePath(feature_name)
  IN  IF ~files[feature_path].exists THEN FeatureResult(files, "not found", FALSE)
      ELSE FeatureResult([files EXCEPT ![feature_path] = NoFile], "ok", TRUE)

\* features the caller constructs with TimeFeature.lag
FillValues == {<<"none">>, <<"tuple", "v">>}

\* keyword arguments passed to update_feature, in the order given
SampleKwargs ==
  {<<[key |-> "source_column", value |-> "other"]>>,
   <<[key |-> "name", value |-> "g"]>>,
   <<[key |-> "bogus", value |-> "x"]>>,
   <<[key |-> "source_column", value |-> "other"], [key |-> "bogus", value |-> "x"]>>}

\* the TimeLake object is constructed: the features directory exists and is
\* empty
InitFeatures ==
  /\ table = <<>>
  /\ catalog_exists = FALSE
  /\ lake = NoLake
  /\ storage = [p \in FeaturePaths |-> NoFile]
  /\ now = 0
  /\ nextUuid = 1
  /\ pc = [p \in Procs |-> "idle"]
  /\ loc = [p \in Procs |-> NoLoc]
  /\ last = NoCall
  /\ prev = <<>>
  /\ hist = [p \in Procs |-> NoHist]

TickFeature == now < MaxFeatureClock /\ now' = now + 1

\* the step of a call with result r: the name (name), the feature passed
\* (entry), the keyword arguments (props) and the files before it (storage)
FeatureStep(op, name, feature, kwargs, r) ==
  /\ TickFeature
  /\ storage' = r.files
  /\ last' = [NoCall EXCEPT !.op = op, !.proc = 1, !.name = name, !.entry = feature,
                            !.props = kwargs, !.ok = ~r.raised, !.raised = r.raised,
                            !.error = r.error, !.result = r.result,
                            !.storage = storage, !.t = now]
  /\ prev' = table
  /\ UNCHANGED <<table, catalog_exists, lake, nextUuid, pc, loc, hist>>

\* lake.add_feature(TimeFeature.lag(...))
AddFeature ==
  \E name \in FeatureNames, fill_value \in FillValues :
    LET feature == TimeFeature_lag(name, "value", 1, fill_value, "on_read", now)
    IN  FeatureStep("add_feature", name, feature, <<>>, add_feature(storage, feature))

\* lake.list_features()
ListFeatures ==
  FeatureStep("list_features", NoneVal, Absent, <<>>,
              FeatureResult(storage, "ok", list_features(storage)))

\* lake.get_feature_info(feature_name)
GetFeatureInfo ==
  \E name \in FeatureLookupNames :
    FeatureStep("get_feature_info", name, Absent, <<>>,
                FeatureResult(storage, "ok", get_feature_info(storage, name)))

\* lake.update_feature(feature_name, **kwargs)
UpdateFeature ==
  \E name \in FeatureLookupNames, kwargs \in SampleKwargs :
    FeatureStep("update_feature", name, Absent, kwargs,
                update_feature(storage, name, kwargs, now))

\* lake.remove_feature(feature_name)
RemoveFeature ==
  \E name \in FeatureLookupNames :
    FeatureStep("remove_feature", name, Absent, <<>>, remove_feature(storage, name))

NextFeatures ==
  \/ AddFeature
  \/ ListFeatures
  \/ GetFeatureInfo
  \/ UpdateFeature
  \/ RemoveFeature

SpecFeatures == InitFeatures /\ [][NextFeatures]_vars

\* some keyword of kwargs is no attribute of the feature when its turn comes
LacksAttribute(feature, kwargs) == SetAttrs(feature, kwargs, 1).raised

\* C40: add_feature of a registered name raises and changes no file;
\* update_feature and remove_feature of an unregistered name raise and
\* change no file; update_feature with a keyword the feature lacks raises
\* and changes no file; after an add_feature that did not raise
\* list_features has the name of the feature, and after a remove_feature
\* that did not raise get_feature_info of the name is absent and the other
\* files are as before.
C40_FeatureRegistry ==
  LET registered == last.storage[FeaturePath(last.name)].exists
  IN  /\ last.op = "add_feature" =>
           IF registered
           THEN last.raised /\ storage = last.storage
           ELSE /\ ~last.raised
                /\ last.entry.name \in list_features(storage)
                /\ get_feature_info(storage, last.name) # Absent
                /\ \A n \in FeatureLookupNames \ {last.name} :
                     storage[FeaturePath(n)] = last.storage[FeaturePath(n)]
      /\ last.op = "update_feature" =>
           /\ ~registered => last.raised /\ storage = last.storage
           /\ (registered /\ LacksAttribute(get_feature_info(last.storage, last.name),
                                            last.props)) =>
                last.raised /\ storage = last.storage
      /\ last.op = "remove_feature" =>
           IF registered
           THEN /\ ~last.raised
                /\ get_feature_info(storage, last.name) = Absent
                /\ last.name \notin list_features(storage)
                /\ \A n \in FeatureLookupNames \ {last.name} :
                     storage[FeaturePath(n)] = last.storage[FeaturePath(n)]
           ELSE last.raised /\ storage = last.storage

C40_Witness ==
  /\ last.op = "update_feature" /\ last.raised
  /\ last.storage[FeaturePath(last.name)].exists
  /\ Len(last.props) = 2
  /\ storage = last.storage
  /\ get_feature_info(storage, last.name).source_column = "value"
  /\ Cardinality(list_features(storage)) = 2

====
